---- MODULE Spec2Model ----
(***************************************************************************)
(* State-machine model of the file organizer: the duplicate detector       *)
(* (DuplicateFinder), the planner/mover (FileMover) and the facade that    *)
(* drives them (FileOrganizer), over a small explicit filesystem.          *)
(*                                                                         *)
(* A path is a record [dir, stem, sfx]: the directory, the file stem (a     *)
(* sequence of characters) and                                             *)
(* the list of numeric suffixes that _get_unique_path appended to the stem *)
(* ("a" = sfx <<>>, "a_1" = sfx <<1>>, "a_1_1" = sfx <<1,1>>).  All files   *)
(* of the model carry the same text extension, which is left implicit.     *)
(* The filesystem fs maps the existing paths to [content, mtime]; content  *)
(* is the byte string of the file.                                         *)
(***************************************************************************)
EXTENDS Integers, Sequences, FiniteSets, TLC

VARIABLES
    fs,               \* filesystem: existing file path -> [content, mtime]
    dirs,             \* existing directories on the archive side
    config,           \* OrganizerConfig: target_directories, use_recycle_bin
    io,               \* environment: per path, which fingerprint reads fail
    scanned_files,    \* FileOrganizer._scanned_files
    duplicates,       \* FileOrganizer._duplicates
    version_groups,   \* FileOrganizer._version_groups
    classifications,  \* FileOrganizer._classifications
    operations,       \* FileMover.operations
    hash_cache,       \* DuplicateFinder._hash_cache
    results,          \* what execute_operations returned (ran is FALSE before)
    detector,         \* which detector filled duplicates: none, sequential, parallel
    reports,          \* the dry-run reports printed so far, oldest first
    before,           \* history: [fs, dirs] before anything was executed
    probe             \* the last call of a function on its own: [fn, arg, ret]

vars == <<fs, dirs, config, io, scanned_files, duplicates, version_groups,
          classifications, operations, hash_cache, results, detector, reports,
          before, probe>>

----------------------------------------------------------------------------
(* Bounds of the model *)

\* modification times are 0..MaxMtime
MaxMtime == 1
\* the driver is run at most this many times in a row
MaxPasses == 2
\* this many files ("a", "a_1", ...) already lie in each archive folder
MaxPre == 1
\* number of consecutive time ticks that fall into one calendar month
MonthSpan == 2
\* the sample size of the partial fingerprint, scaled down from 4096 bytes
SampleSize == 1

Mtimes == 0..MaxMtime

----------------------------------------------------------------------------
(* Paths and the filesystem *)

Dir(root, cat, year, month) ==
    [root |-> root, cat |-> cat, year |-> year, month |-> month]

TargetDir(name) == Dir(name, "", 0, 0)

Path(dir, stem, sfx) == [dir |-> dir, stem |-> stem, sfx |-> sfx]

\* The files that may exist under the target root, in the order in which the
\* directory walk (rglob) yields them.
TargetPaths ==
    << Path(TargetDir("D1"), <<"a">>, <<>>),
       Path(TargetDir("D1"), <<"b">>, <<>>),
       Path(TargetDir("D2"), <<"a">>, <<>>) >>

\* "Root" is the parent of D1 and D2.
Under(path, directory) ==
    directory = "Root" \/ path.dir.root = directory

Exists(f, path) == path \in DOMAIN f

Size(content) == Len(content)

Min(a, b) == IF a < b THEN a ELSE b

Range(s) == {s[i] : i \in 1..Len(s)}

RECURSIVE Flatten(_)
Flatten(ss) == IF ss = <<>> THEN <<>> ELSE Head(ss) \o Flatten(Tail(ss))

\* sorted(seq, key=..., reverse=desc): a stable sort; with reverse=True equal
\* keys keep their original relative order too.
\* key[i] is the key of s[i].
SortBy(s, key, desc) ==
    LET n == Len(s)
        precedes(i, j) == IF desc THEN key[i] > key[j] ELSE key[i] < key[j]
        rank(i) == 1 + Cardinality({j \in 1..n :
                        precedes(j, i) \/ (key[j] = key[i] /\ j < i)})
    IN  [r \in 1..n |-> s[CHOOSE i \in 1..n : rank(i) = r]]

\* The sort keys key=lambda f: f.modified_time and key=lambda f: f.size
ModifiedTimes(files) == [i \in 1..Len(files) |-> files[i].modified_time]

Sizes(files) == [i \in 1..Len(files) |-> files[i].size]

\* The keys of a dict filled in the order of s: first occurrence first.
RECURSIVE KeysInOrder(_, _)
KeysInOrder(ks, seen) ==
    IF ks = <<>> THEN <<>>
    ELSE IF Head(ks) \in seen THEN KeysInOrder(Tail(ks), seen)
    ELSE <<Head(ks)>> \o KeysInOrder(Tail(ks), seen \cup {Head(ks)})

\* defaultdict(list) filled by "for x in s: d[key of x].append(x)", as the
\* sequence of its items in insertion order; key[i] is the key of s[i].
GroupByKey(s, key) ==
    LET keys == KeysInOrder(key, {})
        at(k) == SelectSeq([i \in 1..Len(s) |-> i], LAMBDA i : key[i] = keys[k])
    IN  [k \in 1..Len(keys) |->
            [key |-> keys[k],
             files |-> [j \in 1..Len(at(k)) |-> s[at(k)[j]]]]]

----------------------------------------------------------------------------
(* Content Hasher *)

SHA256(bytes) == [sha256 |-> bytes]

\* _calculate_partial_hash: the head sample, and for files larger than three
\* samples also the sample at the middle and the sample at the end.
PartialSamples(content) ==
    LET n == Len(content)
        head == SubSeq(content, 1, Min(SampleSize, n))
        mid  == SubSeq(content, (n \div 2) + 1, Min((n \div 2) + SampleSize, n))
        tail == SubSeq(content, n - SampleSize + 1, n)
    IN  IF n > SampleSize * 3 THEN head \o mid \o tail ELSE head

\* None (no fingerprint) is a digest of no byte string.
NoHash == SHA256(<<-1>>)

_calculate_partial_hash(f, iofail, path) ==
    IF ~Exists(f, path) \/ iofail[path].partial THEN NoHash
    ELSE SHA256(PartialSamples(f[path].content))

\* _calculate_hash that swallows the read error and returns the digest of
\* what it has read, which is nothing.
_calculate_hash_of_nothing(f, iofail, cache, path) ==
    IF path \in DOMAIN cache THEN <<cache[path], cache>>
    ELSE LET h == IF ~Exists(f, path) \/ iofail[path].full
                  THEN SHA256(<<>>) ELSE SHA256(f[path].content)
         IN  <<h, [p \in DOMAIN cache \cup {path} |->
                      IF p = path THEN h ELSE cache[p]]>>

\* _calculate_hash: <<hash or None, the cache afterwards>>.
_calculate_hash(f, iofail, cache, path) ==
    IF path \in DOMAIN cache THEN <<cache[path], cache>>
    ELSE IF ~Exists(f, path) \/ iofail[path].full THEN <<NoHash, cache>>
    ELSE LET h == SHA256(f[path].content)
         IN  <<h, [p \in DOMAIN cache \cup {path} |->
                      IF p = path THEN h ELSE cache[p]]>>

----------------------------------------------------------------------------
(* Duplicate Detector *)

\* OrganizerConfig.min_file_size
min_file_size == 1

\* FileInfo(path=item, size=size) with __post_init__ reading the metadata.
FileInfo(f, path) ==
    [path |-> path, size |-> Size(f[path].content), hash |-> NoHash,
     modified_time |-> f[path].mtime]

scan_directory(f, directory) ==
    LET found == SelectSeq(TargetPaths, LAMBDA p :
                    /\ Exists(f, p)
                    /\ Under(p, directory)
                    /\ Size(f[p].content) >= min_file_size)
    IN  [i \in 1..Len(found) |-> FileInfo(f, found[i])]

ScanAll(f, directories) ==
    Flatten([i \in 1..Len(directories) |-> scan_directory(f, directories[i])])

\* DuplicateGroup with add_file applied to each member in turn.
DuplicateGroup(hash, files) ==
    [hash |-> hash, files |-> files,
     total_size |-> LET RECURSIVE Sum(_)
                        Sum(s) == IF s = <<>> THEN 0 ELSE Head(s).size + Sum(Tail(s))
                    IN  Sum(files)]

wasted_space(g) ==
    IF Len(g.files) <= 1 THEN 0 ELSE g.total_size - g.files[1].size

\* Files with equal size, for sizes that occur more than once, in dict order.
SizeCandidates(all_files) ==
    LET size_groups == GroupByKey(all_files, Sizes(all_files))
        candidates == SelectSeq(size_groups, LAMBDA g : Len(g.files) > 1)
    IN  Flatten([i \in 1..Len(candidates) |-> candidates[i].files])

\* Stage 2 of find_duplicates: the members of the (size, partial hash)
\* buckets that hold more than one file.
PartialCandidates(f, iofail, cands) ==
    LET ph(x) == _calculate_partial_hash(f, iofail, x.path)
        hashed == SelectSeq(cands, LAMBDA x : ph(x) # NoHash)
        partial_hash_groups ==
            GroupByKey(hashed, [i \in 1..Len(hashed) |-> <<hashed[i].size, ph(hashed[i])>>])
        final_candidates == SelectSeq(partial_hash_groups, LAMBDA g : Len(g.files) > 1)
    IN  Flatten([i \in 1..Len(final_candidates) |-> final_candidates[i].files])

\* The full-hash loop: each file in turn through _calculate_hash; the files
\* that got a hash, with it attached, and the cache afterwards.
RECURSIVE HashEach(_, _, _, _)
HashEach(f, iofail, cache, files) ==
    IF files = <<>> THEN [files |-> <<>>, cache |-> cache]
    ELSE LET r == _calculate_hash(f, iofail, cache, Head(files).path)
             rest == HashEach(f, iofail, r[2], Tail(files))
         IN  IF r[1] # NoHash
             THEN [files |-> <<[Head(files) EXCEPT !.hash = r[1]]>> \o rest.files,
                   cache |-> rest.cache]
             ELSE rest

\* The report without the len(files) > 1 filter.
ReportGroupsUnfiltered(hashed) ==
    LET hash_groups == GroupByKey(hashed, [i \in 1..Len(hashed) |-> hashed[i].hash])
        groups == [i \in 1..Len(hash_groups) |->
                      DuplicateGroup(hash_groups[i].key, hash_groups[i].files)]
    IN  SortBy(groups, [i \in 1..Len(groups) |-> wasted_space(groups[i])], TRUE)

\* The report left in the order in which the hashes were first seen.
ReportGroupsUnsorted(hashed) ==
    LET hash_groups == GroupByKey(hashed, [i \in 1..Len(hashed) |-> hashed[i].hash])
        groups == [i \in 1..Len(hash_groups) |->
                      DuplicateGroup(hash_groups[i].key, hash_groups[i].files)]
    IN  SelectSeq(groups, LAMBDA g : Len(g.files) > 1)

\* hash_groups in insertion order, the groups of one file dropped, then
\* sorted by wasted space, largest first.
ReportGroups(hashed) ==
    LET hash_groups == GroupByKey(hashed, [i \in 1..Len(hashed) |-> hashed[i].hash])
        groups == [i \in 1..Len(hash_groups) |->
                      DuplicateGroup(hash_groups[i].key, hash_groups[i].files)]
        dups == SelectSeq(groups, LAMBDA g : Len(g.files) > 1)
    IN  SortBy(dups, [i \in 1..Len(dups) |-> wasted_space(dups[i])], TRUE)

\* find_duplicates: [groups, cache].
find_duplicates(f, iofail, cache, directories) ==
    LET all_files == ScanAll(f, directories)
        final == PartialCandidates(f, iofail, SizeCandidates(all_files))
        h == HashEach(f, iofail, cache, final)
    IN  [groups |-> ReportGroups(h.files), cache |-> h.cache]

\* find_duplicates_parallel whose workers take the partial fingerprint of
\* the samples instead of the fingerprint of the whole file.
find_duplicates_parallel_sampled(f, iofail, cache, directories, order) ==
    LET files_to_hash == SizeCandidates(ScanAll(f, directories))
        completed == [i \in 1..Len(files_to_hash) |-> files_to_hash[order[i]]]
        hashed == SelectSeq(
                      [i \in 1..Len(completed) |->
                          [completed[i] EXCEPT !.hash =
                              _calculate_partial_hash(f, iofail, completed[i].path)]],
                      LAMBDA x : x.hash # NoHash)
    IN  [groups |-> ReportGroups(hashed), cache |-> cache]

\* find_duplicates_parallel: no partial stage; the workers hash every size
\* candidate and the collecting loop takes the results in the order in which
\* the workers complete, which is the permutation order.
find_duplicates_parallel(f, iofail, cache, directories, order) ==
    LET files_to_hash == SizeCandidates(ScanAll(f, directories))
        completed == [i \in 1..Len(files_to_hash) |-> files_to_hash[order[i]]]
        h == HashEach(f, iofail, cache, completed)
    IN  [groups |-> ReportGroups(h.files), cache |-> h.cache]

----------------------------------------------------------------------------
(* Classifier (text files, keyword scoring) *)

\* DEFAULT_CATEGORIES scaled down: a keyword is a byte value, and as in the
\* source one keyword ("invoice" there, 0 here) is listed by two categories.
categories ==
    << [name |-> "work",    keywords |-> <<0, 2>>],
       [name |-> "finance", keywords |-> <<3, 0>>] >>

\* calculate_category_score without the division by the number of keywords.
calculate_category_score_count(content, keywords) ==
    [num |-> Cardinality({i \in 1..Len(keywords) : keywords[i] \in Range(content)}),
     den |-> 1]

\* calculate_category_score as the fraction [num, den]; the stems of the
\* model hold no keyword, so only the content can match.
calculate_category_score(content, keywords) ==
    IF keywords = <<>> THEN [num |-> 0, den |-> 1]
    ELSE [num |-> Cardinality({i \in 1..Len(keywords) : keywords[i] \in Range(content)}),
          den |-> Len(keywords)]

\* a/b > c/d for positive denominators
FracGt(x, y) == x.num * y.den > y.num * x.den

\* The loop over self.categories (table): the first category with the
\* strictly greatest score; index 0 and score 0 when nothing matches.
RECURSIVE BestCategory(_, _, _, _, _)
BestCategory(table, content, i, best, best_score) ==
    IF i > Len(table) THEN [index |-> best, score |-> best_score]
    ELSE LET score == calculate_category_score(content, table[i].keywords)
         IN  IF FracGt(score, best_score)
             THEN BestCategory(table, content, i + 1, i, score)
             ELSE BestCategory(table, content, i + 1, best, best_score)

\* datetime.fromtimestamp(modified_time): (year, month)
_extract_date_info(file_info) ==
    LET months == file_info.modified_time \div MonthSpan
    IN  [year |-> 1970 + (months \div 12), month |-> 1 + (months % 12)]

\* What _get_file_type makes of the extension; "other" is an extension it
\* does not know.
FileTypes ==
    {"text", "document", "image", "video", "audio", "archive", "executable", "other"}

\* _classify_by_type; "etc" is the catch-all category.
_classify_by_type(file_type) ==
    CASE file_type \in {"text", "document"} -> "documents"
      [] file_type \in {"image", "video", "audio"} -> "media"
      [] file_type = "archive" -> "archives"
      [] file_type = "executable" -> "programs"
      [] OTHER -> "etc"

\* _read_text_file: the text, or nothing (None) when the file cannot be read
_read_text_file(f, path, readable) == IF readable THEN f[path].content ELSE <<>>

\* classify_by_content on a file of the given type with self.categories =
\* table; the confidence is the fraction [num, den].
classify_by_content(f, file_info, file_type, readable, table) ==
    LET content == _read_text_file(f, file_info.path, readable)
        best == BestCategory(table, content, 1, 0, [num |-> 0, den |-> 1])
        hit == /\ file_type = "text"
               /\ content # <<>>
               /\ best.index # 0
               /\ FracGt(best.score, [num |-> 1, den |-> 10])
        date == _extract_date_info(file_info)
    IN  [file_info |-> file_info,
         category |-> IF file_type # "text" THEN _classify_by_type(file_type)
                      ELSE IF hit THEN table[best.index].name ELSE "etc",
         confidence |-> IF file_type # "text" THEN [num |-> 8, den |-> 10]
                        ELSE IF hit THEN best.score ELSE [num |-> 0, den |-> 1],
         year |-> date.year, month |-> date.month]

\* classify_by_date; fromtimestamp gives a year for every time of the model.
classify_by_date(file_info, file_type) ==
    LET date == _extract_date_info(file_info)
    IN  [file_info |-> file_info,
         category |-> _classify_by_type(file_type),
         confidence |-> [num |-> 1, den |-> 1],
         year |-> date.year, month |-> date.month]

\* generate_target_path: base / category / year / month / name
generate_target_path(result) ==
    Path(Dir("Organized", result.category, result.year, result.month),
         result.file_info.path.stem, result.file_info.path.sfx)

\* FileClassifier.classify_files followed by generate_target_path for each
\* result, as FileOrganizer.classify_files does; the files of the organizer
\* runs are readable text files.
ClassifyAll(f, files, by_content) ==
    [i \in 1..Len(files) |->
        LET r == IF by_content
                 THEN classify_by_content(f, files[i], "text", TRUE, categories)
                 ELSE classify_by_date(files[i], "text")
        IN  [file_info |-> r.file_info, category |-> r.category,
             confidence |-> r.confidence, year |-> r.year, month |-> r.month,
             target_path |-> generate_target_path(r)]]

----------------------------------------------------------------------------
(* Keep strategy *)

KeepStrategies == {"newest", "oldest", "largest", "smallest"}

\* The sort of plan_duplicate_cleanup: newest first unless the strategy is
\* one of the other three.
SortForKeep(files, keep_strategy) ==
    IF keep_strategy = "oldest" THEN SortBy(files, ModifiedTimes(files), FALSE)
    ELSE IF keep_strategy = "largest" THEN SortBy(files, Sizes(files), TRUE)
    ELSE IF keep_strategy = "smallest" THEN SortBy(files, Sizes(files), FALSE)
    ELSE SortBy(files, ModifiedTimes(files), TRUE)

\* The sort of FileOrganizer.classify_files: the group's own order unless
\* the strategy is one of the four.
SortForExclude(files, keep_strategy) ==
    IF keep_strategy = "newest" THEN SortBy(files, ModifiedTimes(files), TRUE)
    ELSE IF keep_strategy = "oldest" THEN SortBy(files, ModifiedTimes(files), FALSE)
    ELSE IF keep_strategy = "largest" THEN SortBy(files, Sizes(files), TRUE)
    ELSE IF keep_strategy = "smallest" THEN SortBy(files, Sizes(files), FALSE)
    ELSE files

\* The paths FileOrganizer.classify_files leaves out: all but the first of
\* each duplicate group in the order of the keep strategy.
ExcludePaths(dups, keep_strategy) ==
    UNION {Range([i \in 1..Len(dups[g].files) - 1 |->
                    SortForExclude(dups[g].files, keep_strategy)[i + 1].path])
           : g \in 1..Len(dups)}

----------------------------------------------------------------------------
(* Planner: FileMover.plan_* *)

\* _get_unique_path without the exists() test: the computed path as it is.
_get_unique_path_unchecked(f, path) == path

\* _get_unique_path that tries the counter 1 only.
_get_unique_path_once(f, path) ==
    IF ~Exists(f, path) THEN path
    ELSE Path(path.dir, path.stem, Append(path.sfx, 1))

\* _get_unique_path: the path itself when it is free, else the stem with the
\* smallest counter 1, 2, ... for which the path is free.  Among n existing
\* files some counter up to n + 1 is free.
_get_unique_path(f, path) ==
    IF ~Exists(f, path) THEN path
    ELSE LET cand(k) == Path(path.dir, path.stem, Append(path.sfx, k))
             free == {k \in 1..(Cardinality(DOMAIN f) + 1) : ~Exists(f, cand(k))}
         IN  cand(CHOOSE k \in free : \A j \in free : k <= j)

NoName == [stem |-> <<>>, sfx |-> <<>>]

MoveOperation(source, destination, action, why, name, category, size) ==
    [source |-> source, destination |-> destination, action |-> action,
     reason |-> [why |-> why, name |-> name, category |-> category],
     status |-> "pending", error_message |-> "", size |-> size]

DuplicateAction(cfg) == IF cfg.use_recycle_bin THEN "recycle" ELSE "archive"

\* The operations of one group: every file after the first of the sorted
\* group goes to the duplicates archive under its own name.
PlanGroup(f, cfg, group, keep_strategy) ==
    LET files == SortForKeep(group.files, keep_strategy)
        keep_file == files[1]
        archive_files == Tail(files)
    IN  [i \in 1..Len(archive_files) |->
            MoveOperation(
                archive_files[i].path,
                _get_unique_path(f, Path(Dir("Duplicates", "", 0, 0),
                                         archive_files[i].path.stem,
                                         archive_files[i].path.sfx)),
                DuplicateAction(cfg),
                "duplicate",
                [stem |-> keep_file.path.stem, sfx |-> keep_file.path.sfx],
                "",
                archive_files[i].size)]

plan_duplicate_cleanup(f, cfg, dups, keep_strategy) ==
    Flatten([g \in 1..Len(dups) |-> PlanGroup(f, cfg, dups[g], keep_strategy)])

plan_classification_organize(f, class_results) ==
    LET todo == SelectSeq(class_results,
                          LAMBDA r : r.file_info.path # r.target_path)
    IN  [i \in 1..Len(todo) |->
            MoveOperation(todo[i].file_info.path,
                          _get_unique_path(f, todo[i].target_path),
                          "move", "classified", NoName, todo[i].category,
                          todo[i].file_info.size)]

\* keep_paths is accepted and never read.
plan_version_cleanup(f, cfg, keep_paths, archive_paths) ==
    LET todo == SelectSeq(archive_paths, LAMBDA p : Exists(f, p))
    IN  [i \in 1..Len(todo) |->
            MoveOperation(todo[i],
                          _get_unique_path(f, Path(Dir("Versions", "", 0, 0),
                                                   todo[i].stem, todo[i].sfx)),
                          DuplicateAction(cfg), "old_version", NoName, "",
                          Size(f[todo[i]].content))]

----------------------------------------------------------------------------
(* Version Grouper, as far as the planner reads it *)

\* Stems are sequences of characters.  The regular expressions of
\* VERSION_PATTERNS have the shape  separator? alternative|alternative|...
\* where an alternative is a sequence of elements "between min and max
\* characters of this set" (max = -1: no limit).  Within an alternative a
\* repeated element is followed by characters outside its set, so a greedy
\* match never has to give characters back.
Digits == {"0", "1", "2", "3", "4", "5", "6", "7", "8", "9"}

Separators == {"_", "-", " "}

\* str.lower() and re.IGNORECASE on the letters of the model
Lower(c) == IF c = "V" THEN "v" ELSE IF c = "X" THEN "x" ELSE c

Lit(c) == [set |-> {c}, min |-> 1, max |-> 1]

Word(w) == [i \in 1..Len(w) |-> Lit(w[i])]

SomeDigits(min, max) == [set |-> Digits, min |-> min, max |-> max]

Pattern(sep, sep_optional, alternatives) ==
    [sep |-> sep, sep_optional |-> sep_optional, alternatives |-> alternatives]

\* The Korean words are spelled with the code points of their syllables.
VERSION_PATTERNS ==
    << Pattern(Separators, TRUE, << Word(<<"v">>) \o <<SomeDigits(1, -1)>> >>),
       Pattern({}, TRUE, << <<Lit("("), SomeDigits(1, -1), Lit(")")>> >>),
       Pattern({}, TRUE, << <<Lit("["), SomeDigits(1, -1), Lit("]")>> >>),
       Pattern({"_", "-"}, FALSE, << <<SomeDigits(8, 8)>> >>),
       Pattern({"_", "-"}, FALSE,
               << <<SomeDigits(4, 4), [set |-> {"-", "_"}, min |-> 1, max |-> 1],
                    SomeDigits(2, 2), [set |-> {"-", "_"}, min |-> 1, max |-> 1],
                    SomeDigits(2, 2)>> >>),
       Pattern(Separators, TRUE,
               << Word(<<"U+CD5C", "U+C885">>), Word(<<"f", "i", "n", "a", "l">>),
                  Word(<<"U+C218", "U+C815">>), Word(<<"U+C218", "U+C815", "U+BCF8">>),
                  Word(<<"U+C644", "U+B8CC">>), Word(<<"U+C644", "U+C131">>) >>),
       Pattern(Separators, TRUE,
               << Word(<<"U+CD08", "U+C548">>), Word(<<"d", "r", "a", "f", "t">>),
                  Word(<<"U+C784", "U+C2DC">>), Word(<<"t", "e", "m", "p">>) >>),
       Pattern(Separators, TRUE,
               << Word(<<"U+BC31", "U+C5C5">>), Word(<<"b", "a", "c", "k", "u", "p">>),
                  Word(<<"b", "a", "k">>) >>),
       Pattern(Separators, TRUE,
               << Word(<<"U+BCF5", "U+C0AC", "U+BCF8">>), Word(<<"c", "o", "p", "y">>),
                  Word(<<"U+C0AC", "U+BCF8">>) >>),
       Pattern(Separators, TRUE,
               << Word(<<"o", "l", "d">>), Word(<<"n", "e", "w">>),
                  Word(<<"l", "a", "t", "e", "s", "t">>),
                  Word(<<"o", "r", "i", "g", "i", "n", "a", "l">>) >>),
       Pattern(Separators, TRUE,
               << Word(<<"r", "e", "v">>) \o <<SomeDigits(0, -1)>>,
                  Word(<<"r", "e", "v", "i", "s", "i", "o", "n">>) \o <<SomeDigits(0, -1)>> >>) >>

\* How many characters of the set stand at s[i], s[i+1], ..., at most max.
RECURSIVE RunLength(_, _, _, _)
RunLength(set, s, i, max) ==
    IF i > Len(s) \/ max = 0 \/ Lower(s[i]) \notin set THEN 0
    ELSE 1 + RunLength(set, s, i + 1, IF max = -1 THEN -1 ELSE max - 1)

\* The position after the elements k, k+1, ... of an alternative matched at
\* s[i]; 0 when they do not match there.
RECURSIVE MatchFrom(_, _, _, _)
MatchFrom(alternative, k, s, i) ==
    IF k > Len(alternative) THEN i
    ELSE LET run == RunLength(alternative[k].set, s, i, alternative[k].max)
         IN  IF run < alternative[k].min THEN 0
             ELSE MatchFrom(alternative, k + 1, s, i + run)

\* The first alternative that matches at s[i] decides: the position after it.
RECURSIVE MatchAlternatives(_, _, _, _)
MatchAlternatives(alternatives, a, s, i) ==
    IF a > Len(alternatives) THEN 0
    ELSE IF MatchFrom(alternatives[a], 1, s, i) # 0
    THEN MatchFrom(alternatives[a], 1, s, i)
    ELSE MatchAlternatives(alternatives, a + 1, s, i)

\* pattern.match at position i: the separator is taken when it is there and
\* the rest matches behind it, else the match is tried without it.
MatchAt(pattern, s, i) ==
    LET with_sep == IF i <= Len(s) /\ s[i] \in pattern.sep
                    THEN MatchAlternatives(pattern.alternatives, 1, s, i + 1) ELSE 0
    IN  IF with_sep # 0 THEN with_sep
        ELSE IF pattern.sep_optional
        THEN MatchAlternatives(pattern.alternatives, 1, s, i)
        ELSE 0

\* pattern.sub('', s): the matches are removed from left to right, each
\* search starting where the last match ended.
RECURSIVE Sub(_, _, _)
Sub(pattern, s, i) ==
    IF i > Len(s) THEN <<>>
    ELSE IF MatchAt(pattern, s, i) # 0 THEN Sub(pattern, s, MatchAt(pattern, s, i))
    ELSE <<s[i]>> \o Sub(pattern, s, i + 1)

RECURSIVE RemovePatterns(_, _)
RemovePatterns(s, k) ==
    IF k > Len(VERSION_PATTERNS) THEN s
    ELSE RemovePatterns(Sub(VERSION_PATTERNS[k], s, 1), k + 1)

\* re.sub(r'[_\-\s]+', '_', s): every run of separators becomes one "_".
RECURSIVE CollapseSeparators(_)
CollapseSeparators(s) ==
    IF s = <<>> THEN <<>>
    ELSE IF Head(s) \in Separators
    THEN IF Len(s) > 1 /\ s[2] \in Separators
         THEN CollapseSeparators(Tail(s))
         ELSE <<"_">> \o CollapseSeparators(Tail(s))
    ELSE <<Head(s)>> \o CollapseSeparators(Tail(s))

\* s.strip('_- ')
RECURSIVE Strip(_)
Strip(s) ==
    IF s = <<>> THEN <<>>
    ELSE IF Head(s) \in Separators THEN Strip(Tail(s))
    ELSE IF s[Len(s)] \in Separators THEN Strip(SubSeq(s, 1, Len(s) - 1))
    ELSE s

\* _extract_base_name: every pattern removed in turn, the separators tidied
\* up; the stem itself when nothing is left.
_extract_base_name(stem) ==
    LET or_stem(base_name) == IF base_name # <<>> THEN base_name ELSE stem
    IN  or_stem(Strip(CollapseSeparators(RemovePatterns(stem, 1))))

\* difflib's find_longest_match on a[alo..ahi] and b[blo..bhi]: the blocks
\* <<i, j, k>> with a[i..i+k-1] = b[j..j+k-1].
MatchingBlocks(a, alo, ahi, b, blo, bhi) ==
    {t \in (alo..ahi) \X (blo..bhi) \X (1..Len(a)) :
        /\ t[1] + t[3] - 1 <= ahi
        /\ t[2] + t[3] - 1 <= bhi
        /\ \A d \in 0..(t[3] - 1) : a[t[1] + d] = b[t[2] + d]}

\* The longest block; of the longest the one that starts first in a, then
\* first in b.
LongestMatch(blocks) ==
    CHOOSE t \in blocks : \A u \in blocks :
        \/ u[3] < t[3]
        \/ u[3] = t[3] /\ t[1] < u[1]
        \/ u[3] = t[3] /\ t[1] = u[1] /\ t[2] <= u[2]

\* The number of matching characters that get_matching_blocks finds: the
\* longest block, then the same to its left and to its right.
RECURSIVE MatchingSize(_, _, _, _, _, _)
MatchingSize(a, alo, ahi, b, blo, bhi) ==
    LET blocks == MatchingBlocks(a, alo, ahi, b, blo, bhi)
        around(t) == t[3] + MatchingSize(a, alo, t[1] - 1, b, blo, t[2] - 1)
                          + MatchingSize(a, t[1] + t[3], ahi, b, t[2] + t[3], bhi)
    IN  IF blocks = {} THEN 0 ELSE around(LongestMatch(blocks))

LowerAll(s) == [i \in 1..Len(s) |-> Lower(s[i])]

\* SequenceMatcher(None, base1, base2).ratio() as the fraction 2M / T (1.0
\* for two empty names), on the lower-cased base names.
_calculate_similarity(name1, name2) ==
    LET ratio(base1, base2) ==
            IF Len(base1) + Len(base2) = 0 THEN [num |-> 1, den |-> 1]
            ELSE [num |-> 2 * MatchingSize(base1, 1, Len(base1), base2, 1, Len(base2)),
                  den |-> Len(base1) + Len(base2)]
    IN  ratio(LowerAll(_extract_base_name(name1)), LowerAll(_extract_base_name(name2)))

\* OrganizerConfig.filename_similarity_threshold, in percent
filename_similarity_threshold == 60

\* OrganizerConfig.content_similarity_threshold, in percent
content_similarity_threshold == 75

\* ssdeep.hash_from_file stands for the content of the file.
_calculate_fuzzy_hash(f, path) == f[path].content

\* ssdeep.compare, 0..100: for contents of one length the share of the
\* positions that hold the same byte, 0 for contents of different lengths.
_calculate_fuzzy_similarity(hash1, hash2) ==
    IF hash1 = <<>> \/ hash2 = <<>> \/ Len(hash1) # Len(hash2) THEN 0
    ELSE (100 * Cardinality({i \in 1..Len(hash1) : hash1[i] = hash2[i]})) \div Len(hash1)

VersionGroup(base_name, files) ==
    [base_name |-> base_name,
     files |-> SortBy(files, ModifiedTimes(files), TRUE)]

\* The loop of _find_content_similar_groups from file i on: an unused file
\* takes in every later unused file whose content is similar to its own.
RECURSIVE ContentGroupsFrom(_, _, _, _)
ContentGroupsFrom(f, files, i, used) ==
    IF i > Len(files) THEN <<>>
    ELSE IF i \in used THEN ContentGroupsFrom(f, files, i + 1, used)
    ELSE LET taken == {j \in (i + 1)..Len(files) :
                          /\ j \notin used
                          /\ _calculate_fuzzy_similarity(
                                 _calculate_fuzzy_hash(f, files[i].path),
                                 _calculate_fuzzy_hash(f, files[j].path))
                                >= content_similarity_threshold}
             similar_files == SelectSeq(files, LAMBDA x :
                                 \E j \in {i} \cup taken : files[j] = x)
             by_date == SortBy(similar_files, ModifiedTimes(similar_files), TRUE)
             rest == ContentGroupsFrom(f, files, i + 1, used \cup {i} \cup taken)
         IN  IF Len(similar_files) > 1
             THEN <<VersionGroup(_extract_base_name(by_date[1].path.stem)
                                   \o <<"_", "c", "o", "n", "t", "e", "n", "t", "_",
                                        "s", "i", "m", "i", "l", "a", "r">>,
                                 similar_files)>> \o rest
             ELSE rest

\* _find_content_similar_groups that never marks a file as used: every file
\* seeds a group of all the later files similar to it.
_find_content_similar_groups_reusing(f, files) ==
    Flatten([i \in 1..Len(files) |->
        LET similar_files ==
                SelectSeq(files, LAMBDA x : \E j \in i..Len(files) :
                    /\ files[j] = x
                    /\ j = i \/ _calculate_fuzzy_similarity(
                                    _calculate_fuzzy_hash(f, files[i].path),
                                    _calculate_fuzzy_hash(f, files[j].path))
                                   >= content_similarity_threshold)
        IN  IF Len(similar_files) > 1
            THEN <<VersionGroup(_extract_base_name(files[i].path.stem), similar_files)>>
            ELSE <<>>])

_find_content_similar_groups(f, files) ==
    IF Len(files) < 2 THEN <<>> ELSE ContentGroupsFrom(f, files, 1, {})

\* The merge pass: group i takes in every later unused group whose base name
\* is similar enough (all groups share the one extension of the model).
RECURSIVE MergeFrom(_, _, _)
MergeFrom(groups, i, used) ==
    IF i > Len(groups) THEN <<>>
    ELSE IF i \in used THEN MergeFrom(groups, i + 1, used)
    ELSE LET enough(similarity) ==
                 similarity.num * 100 >= filename_similarity_threshold * similarity.den
             merged(taken) ==
                 LET order == SelectSeq([j \in 1..Len(groups) |-> j],
                                        LAMBDA j : j \in taken)
                     files == groups[i].files
                                \o Flatten([k \in 1..Len(order) |->
                                               groups[order[k]].files])
                     rest == MergeFrom(groups, i + 1, used \cup {i} \cup taken)
                 IN  IF Len(files) > 1
                     THEN <<VersionGroup(groups[i].base_name, files)>> \o rest
                     ELSE rest
         IN  merged({j \in (i + 1)..Len(groups) :
                       /\ j \notin used
                       /\ enough(_calculate_similarity(groups[i].base_name,
                                                       groups[j].base_name))})

_merge_similar_groups(groups) ==
    IF Len(groups) <= 1 THEN groups ELSE MergeFrom(groups, 1, {})

\* find_version_groups with every group of one file kept.
find_version_groups_unfiltered(f, files, ssdeep_available) ==
    LET base_name_groups ==
            GroupByKey(files, [i \in 1..Len(files) |->
                                  LowerAll(_extract_base_name(files[i].path.stem))])
        content_groups == IF ssdeep_available
                          THEN _find_content_similar_groups(f, files) ELSE <<>>
    IN  _merge_similar_groups(
            [i \in 1..Len(base_name_groups) |->
                VersionGroup(base_name_groups[i].key, base_name_groups[i].files)]
            \o content_groups)

\* find_version_groups: the files that share a base name, with the optional
\* fuzzy-hash library the files of similar content as well, then the merge
\* pass (all files of the model have one extension).
find_version_groups(f, files, ssdeep_available) ==
    LET base_name_groups ==
            GroupByKey(files, [i \in 1..Len(files) |->
                                  LowerAll(_extract_base_name(files[i].path.stem))])
        multi == SelectSeq(base_name_groups, LAMBDA g : Len(g.files) > 1)
        content_groups == IF ssdeep_available
                          THEN _find_content_similar_groups(f, files) ELSE <<>>
    IN  _merge_similar_groups(
            [i \in 1..Len(multi) |-> VersionGroup(multi[i].key, multi[i].files)]
            \o content_groups)

\* re.search of one of the words anywhere in the stem, whatever the case
Search(words, stem) ==
    \E i \in 1..Len(stem) : MatchAt(Pattern({}, TRUE, words), stem, i) # 0

\* _extract_version_info, the status it reports.
_extract_version_info(stem) ==
    [status |->
        IF Search(<< Word(<<"U+CD5C", "U+C885">>), Word(<<"f", "i", "n", "a", "l">>),
                     Word(<<"U+C644", "U+B8CC">>), Word(<<"U+C644", "U+C131">>) >>, stem)
        THEN "final"
        ELSE IF Search(<< Word(<<"U+CD08", "U+C548">>), Word(<<"d", "r", "a", "f", "t">>),
                          Word(<<"U+C784", "U+C2DC">>), Word(<<"t", "e", "m", "p">>) >>, stem)
        THEN "draft"
        ELSE IF Search(<< Word(<<"U+BC31", "U+C5C5">>),
                          Word(<<"b", "a", "c", "k", "u", "p">>),
                          Word(<<"b", "a", "k">>) >>, stem)
        THEN "backup"
        ELSE "None"]

\* analyze_version_group that does not look at the status.
analyze_version_group_latest(group) ==
    LET files == SortBy(group.files, ModifiedTimes(group.files), TRUE)
        keep == files[1].path
        others == SelectSeq(files, LAMBDA x : x.path # keep)
    IN  [recommended_keep |-> keep,
         recommended_archive |-> [i \in 1..Len(others) |-> others[i].path]]

\* analyze_version_group: the files newest first; the one to keep is the
\* last of them whose status is final, the first of them when none is; the
\* others are to be archived.  (The groups of the model are never empty.)
analyze_version_group(group) ==
    LET files == SortBy(group.files, ModifiedTimes(group.files), TRUE)
        finals == SelectSeq(files, LAMBDA x :
                      _extract_version_info(x.path.stem).status = "final")
        keep == IF finals # <<>> THEN finals[Len(finals)].path ELSE files[1].path
        others == SelectSeq(files, LAMBDA x : x.path # keep)
    IN  [recommended_keep |-> keep,
         recommended_archive |-> [i \in 1..Len(others) |-> others[i].path]]

\* FileOrganizer.plan_cleanup: the three plans in order, each only when asked
\* for and when its input is not empty.
plan_cleanup(f, cfg, dups, vgroups, class_results, do_dup, do_ver, do_org, keep_strategy) ==
    LET dup_ops == IF do_dup /\ dups # <<>>
                   THEN plan_duplicate_cleanup(f, cfg, dups, keep_strategy) ELSE <<>>
        analyses == [i \in 1..Len(vgroups) |-> analyze_version_group(vgroups[i])]
        keep_paths == [i \in 1..Len(vgroups) |-> analyses[i].recommended_keep]
        archive_paths == Flatten([i \in 1..Len(vgroups) |->
                                     analyses[i].recommended_archive])
        ver_ops == IF do_ver /\ vgroups # <<>>
                   THEN plan_version_cleanup(f, cfg, keep_paths, archive_paths) ELSE <<>>
        org_ops == IF do_org /\ class_results # <<>>
                   THEN plan_classification_organize(f, class_results) ELSE <<>>
    IN  dup_ops \o ver_ops \o org_ops

----------------------------------------------------------------------------
(* Mover: FileMover.execute_operations *)

\* shutil.move of a file onto a file path: the destination then holds the
\* source's content and metadata, whatever lay there before, and the source
\* is gone.
ShutilMove(f, src, dst) ==
    [p \in (DOMAIN f \ {src}) \cup {dst} |-> IF p = dst THEN f[src] ELSE f[p]]

Remove(f, path) == [p \in DOMAIN f \ {path} |-> f[p]]

\* _execute_move on the state st = [fs, dirs]; fault is what the OS does to
\* this operation: "none", "mkdir" (the directory cannot be made) or "os"
\* (the move itself raises).  A missing source raises as well.
_execute_move(st, op, fault) ==
    IF fault = "mkdir"
    THEN [fs |-> st.fs, dirs |-> st.dirs,
          op |-> [op EXCEPT !.status = "failed", !.error_message = "mkdir failed"]]
    ELSE IF fault = "os" \/ ~Exists(st.fs, op.source)
    THEN [fs |-> st.fs, dirs |-> st.dirs \cup {op.destination.dir},
          op |-> [op EXCEPT !.status = "failed", !.error_message = "os error"]]
    ELSE [fs |-> ShutilMove(st.fs, op.source, op.destination),
          dirs |-> st.dirs \cup {op.destination.dir},
          op |-> [op EXCEPT !.status = "success"]]

\* shutil.copy2: the destination gets the source's bytes and times.
ShutilCopy(f, src, dst) ==
    [p \in DOMAIN f \cup {dst} |-> IF p = dst THEN f[src] ELSE f[p]]

\* _execute_copy, with the faults of _execute_move.
_execute_copy(st, op, fault) ==
    IF fault = "mkdir"
    THEN [fs |-> st.fs, dirs |-> st.dirs,
          op |-> [op EXCEPT !.status = "failed", !.error_message = "mkdir failed"]]
    ELSE IF fault = "os" \/ ~Exists(st.fs, op.source)
    THEN [fs |-> st.fs, dirs |-> st.dirs \cup {op.destination.dir},
          op |-> [op EXCEPT !.status = "failed", !.error_message = "os error"]]
    ELSE [fs |-> ShutilCopy(st.fs, op.source, op.destination),
          dirs |-> st.dirs \cup {op.destination.dir},
          op |-> [op EXCEPT !.status = "success"]]

\* _move_to_recycle_bin: send2trash works only where the library is there
\* and the file exists; then the file leaves the filesystem for the trash.
_move_to_recycle_bin(f, path, trash_ok) == trash_ok /\ Exists(f, path)

NoResults ==
    [ran |-> FALSE, dry_run |-> FALSE, total |-> 0, success |-> 0, failed |-> 0,
     skipped |-> 0, space_freed |-> 0, errors |-> <<>>]

Count(acc, op, frees) ==
    IF op.status = "success"
    THEN [acc EXCEPT !.success = @ + 1,
                     !.space_freed = @ + (IF frees THEN op.size ELSE 0)]
    ELSE [acc EXCEPT !.failed = @ + 1,
                     !.errors = Append(@, [file |-> op.source, error |-> op.error_message])]

\* The loop body without the fallback: a RECYCLE operation whose file does
\* not reach the trash is failed as it is.
ExecuteOneNoFallback(st, acc, op, fault, trash_ok) ==
    IF op.action = "recycle" /\ _move_to_recycle_bin(st.fs, op.source, trash_ok)
    THEN [fs |-> Remove(st.fs, op.source), dirs |-> st.dirs,
          op |-> [op EXCEPT !.status = "success"],
          results |-> Count(acc, [op EXCEPT !.status = "success"], TRUE)]
    ELSE IF op.action = "recycle" \/ fault = "raise"
    THEN [fs |-> st.fs, dirs |-> st.dirs,
          op |-> [op EXCEPT !.status = "failed", !.error_message = "exception"],
          results |-> Count(acc, [op EXCEPT !.status = "failed",
                                            !.error_message = "exception"], TRUE)]
    ELSE IF op.action = "copy"
    THEN LET c == _execute_copy(st, op, fault)
         IN  [fs |-> c.fs, dirs |-> c.dirs, op |-> c.op,
              results |-> IF c.op.status = "success"
                          THEN [acc EXCEPT !.success = @ + 1]
                          ELSE [acc EXCEPT !.failed = @ + 1]]
    ELSE LET m == _execute_move(st, op, fault)
         IN  [fs |-> m.fs, dirs |-> m.dirs, op |-> m.op,
              results |-> Count(acc, m.op, op.action = "archive")]

\* One pass of the loop body for a real run: [fs, dirs, op, results].  The
\* fault "raise" is an exception that _execute_move and _execute_copy do not
\* catch, raised before the file is touched: the handler of the loop body
\* takes it.  _move_to_recycle_bin catches everything itself.
ExecuteOne(st, acc, op, fault, trash_ok) ==
    IF op.action = "recycle" /\ _move_to_recycle_bin(st.fs, op.source, trash_ok)
    THEN LET done == [op EXCEPT !.status = "success"]
         IN  [fs |-> Remove(st.fs, op.source), dirs |-> st.dirs, op |-> done,
              results |-> Count(acc, done, TRUE)]
    ELSE IF fault = "raise"
    THEN LET failed == [op EXCEPT !.action = IF @ = "recycle" THEN "archive" ELSE @,
                                  !.status = "failed", !.error_message = "exception"]
         IN  [fs |-> st.fs, dirs |-> st.dirs, op |-> failed,
              results |-> [acc EXCEPT !.failed = @ + 1,
                              !.errors = Append(@, [file |-> op.source,
                                                    error |-> "exception"])]]
    ELSE IF op.action = "recycle"
    THEN LET m == _execute_move(st, [op EXCEPT !.action = "archive"], fault)
         IN  [fs |-> m.fs, dirs |-> m.dirs, op |-> m.op,
              results |-> Count(acc, m.op, TRUE)]
    ELSE IF op.action = "copy"
    THEN LET c == _execute_copy(st, op, fault)
         IN  [fs |-> c.fs, dirs |-> c.dirs, op |-> c.op,
              results |-> IF c.op.status = "success"
                          THEN [acc EXCEPT !.success = @ + 1]
                          ELSE [acc EXCEPT !.failed = @ + 1]]
    ELSE LET m == _execute_move(st, op, fault)
         IN  [fs |-> m.fs, dirs |-> m.dirs, op |-> m.op,
              results |-> Count(acc, m.op, op.action = "archive")]

\* The loop of execute_operations from operation i on; done holds the
\* operations already gone through.
RECURSIVE ExecuteFrom(_, _, _, _, _, _, _)
ExecuteFrom(st, acc, done, ops, i, faults, trash_ok) ==
    IF i > Len(ops)
    THEN [fs |-> st.fs, dirs |-> st.dirs, operations |-> done, results |-> acc]
    ELSE IF acc.dry_run
    THEN ExecuteFrom(st,
                     [acc EXCEPT !.success = @ + 1, !.space_freed = @ + ops[i].size],
                     Append(done, [ops[i] EXCEPT !.status = "dry_run"]),
                     ops, i + 1, faults, trash_ok)
    ELSE LET r == ExecuteOne(st, acc, ops[i],
                             IF i \in DOMAIN faults THEN faults[i] ELSE "none",
                             trash_ok)
         IN  ExecuteFrom([fs |-> r.fs, dirs |-> r.dirs], r.results,
                         Append(done, r.op), ops, i + 1, faults, trash_ok)

\* execute_operations that does not look at dry_run.
execute_operations_for_real(f, d, ops, dry_run, faults, trash_ok) ==
    ExecuteFrom([fs |-> f, dirs |-> d],
                [NoResults EXCEPT !.ran = TRUE, !.dry_run = FALSE, !.total = Len(ops)],
                <<>>, ops, 1, faults, trash_ok)

\* execute_operations whose loop ends at the first operation that fails.
execute_operations_aborting(f, d, ops, dry_run, faults, trash_ok) ==
    LET start == [NoResults EXCEPT !.ran = TRUE, !.dry_run = dry_run,
                                   !.total = Len(ops)]
        all == ExecuteFrom([fs |-> f, dirs |-> d], start, <<>>, ops, 1, faults, trash_ok)
        bad == {i \in 1..Len(ops) : all.operations[i].status = "failed"}
        k == IF bad = {} THEN Len(ops) ELSE CHOOSE i \in bad : \A j \in bad : i <= j
        part == ExecuteFrom([fs |-> f, dirs |-> d], start, <<>>, SubSeq(ops, 1, k), 1,
                            faults, trash_ok)
    IN  [part EXCEPT !.operations = @ \o SubSeq(ops, k + 1, Len(ops))]

\* execute_operations: [fs, dirs, operations, results] afterwards.
execute_operations(f, d, ops, dry_run, faults, trash_ok) ==
    ExecuteFrom([fs |-> f, dirs |-> d],
                [NoResults EXCEPT !.ran = TRUE, !.dry_run = dry_run, !.total = Len(ops)],
                <<>>, ops, 1, faults, trash_ok)

\* The number of operations per action kind that the report lists in full.
ShownPerAction == 20

\* get_dry_run_report: the count, then per action kind (in order of first
\* appearance) the number of operations and the first ShownPerAction of
\* them, then the size summed over the operations listed.
get_dry_run_report(ops) ==
    LET by_action == GroupByKey(ops, [i \in 1..Len(ops) |-> ops[i].action])
        shown(g) == SubSeq(g.files, 1, Min(Len(g.files), ShownPerAction))
        listed == Flatten([k \in 1..Len(by_action) |-> shown(by_action[k])])
        RECURSIVE Sum(_)
        Sum(x) == IF x = <<>> THEN 0 ELSE Head(x).size + Sum(Tail(x))
    IN  [count |-> Len(ops),
         sections |-> [k \in 1..Len(by_action) |->
             [action |-> by_action[k].key,
              files |-> Len(by_action[k].files),
              lines |-> [i \in 1..Len(shown(by_action[k])) |->
                           [source |-> shown(by_action[k])[i].source,
                            destination |-> shown(by_action[k])[i].destination,
                            size |-> shown(by_action[k])[i].size,
                            reason |-> shown(by_action[k])[i].reason]],
              more |-> Len(by_action[k].files) - Len(shown(by_action[k]))]],
         total_size |-> Sum(listed)]

----------------------------------------------------------------------------
(* Initial states *)

\* The byte strings of the planner runs: two contents of different sizes,
\* both of the first category.
PlanContents == {<<0>>, <<0, 1>>}

\* The byte strings of the detector runs: empty; one byte (equal size,
\* different head sample); four bytes differing only outside the samples.
DetectContents == {<<>>, <<0>>, <<1>>, <<0, 0, 0, 0>>, <<0, 1, 0, 0>>}

\* Every way to have some of the target files exist.
Layouts(contents, times) ==
    UNION {[S -> [content : contents, mtime : times]] :
           S \in SUBSET Range(TargetPaths)}

ArchiveDirs ==
    {Dir("Duplicates", "", 0, 0), Dir("Versions", "", 0, 0)}
    \cup {Dir("Organized", c, 1970 + ((t \div MonthSpan) \div 12),
              1 + ((t \div MonthSpan) % 12)) :
            c \in {"work", "finance", "etc", "documents"}, t \in Mtimes}

\* What already lies in the archive folders: the first n of a, a_1, a_2, ...
\* in each of them, left there by earlier runs.
Archived(n) ==
    LET names == {<<>>} \cup {<<k>> : k \in 1..(n - 1)}
        paths == IF n = 0 THEN {}
                 ELSE {Path(d, <<"a">>, sfx) : d \in ArchiveDirs, sfx \in names}
    IN  [p \in paths |-> [content |-> <<9>>, mtime |-> 0]]

\* The configured target directories: the root alone, or the root and a
\* directory nested in it.
TargetLists == {<<"Root">>, <<"Root", "D2">>}

AllReadable == [p \in Range(TargetPaths) |-> [partial |-> FALSE, full |-> FALSE]]

\* At most one file whose fingerprint reads fail: the partial one, the full
\* one, or both.
IoChoices ==
    {AllReadable} \cup
    {[AllReadable EXCEPT ![p] = k] :
        p \in Range(TargetPaths),
        k \in {[partial |-> TRUE, full |-> TRUE], [partial |-> FALSE, full |-> TRUE],
               [partial |-> TRUE, full |-> FALSE]}}

NoProbe == [fn |-> "none"]

Fresh ==
    /\ scanned_files = <<>>
    /\ duplicates = <<>>
    /\ detector = "none"
    /\ version_groups = <<>>
    /\ classifications = <<>>
    /\ operations = <<>>
    /\ hash_cache = <<>>
    /\ results = NoResults
    /\ reports = <<>>
    /\ probe = NoProbe

Init ==
    /\ \E layout \in Layouts(PlanContents, Mtimes) : fs = layout @@ Archived(MaxPre)
    /\ dirs = IF MaxPre = 0 THEN {} ELSE ArchiveDirs
    /\ config \in [target_directories : TargetLists, use_recycle_bin : BOOLEAN]
    /\ io = AllReadable
    /\ before = [fs |-> fs, dirs |-> dirs]
    /\ Fresh

----------------------------------------------------------------------------
(* FileOrganizer, one action per method.  The callers (run_organizer, the   *)
(* GUI, the examples) call the methods in the order scan, duplicates,       *)
(* versions, classify, plan, execute and may leave any of them out.         *)

\* The methods that come after find_duplicates, after find_version_groups,
\* after classify_files and after plan_cleanup have not been called yet.
NotExecuted == ~results.ran
NotPlanned == NotExecuted /\ operations = <<>>
NotClassified == NotPlanned /\ classifications = <<>>
NotGrouped == NotClassified /\ version_groups = <<>>
NotDetected == NotGrouped /\ duplicates = <<>> /\ hash_cache = <<>>

scan_directories ==
    /\ NotDetected
    /\ scanned_files' = ScanAll(fs, config.target_directories)
    /\ UNCHANGED <<probe, fs, dirs, config, io, duplicates, detector, version_groups,
                   classifications, operations, hash_cache, results, reports, before>>

\* DuplicateFinder.find_duplicates on the configured directories
DetectSequential ==
    LET r == find_duplicates(fs, io, hash_cache, config.target_directories)
    IN  /\ duplicates' = r.groups
        /\ hash_cache' = r.cache
        /\ detector' = "sequential"

\* DuplicateFinder.find_duplicates_parallel, for every order in which the
\* workers may complete
DetectParallel ==
    \E order \in Permutations(
            1..Len(SizeCandidates(ScanAll(fs, config.target_directories)))) :
        LET r == find_duplicates_parallel(fs, io, hash_cache,
                                          config.target_directories, order)
        IN  /\ duplicates' = r.groups
            /\ hash_cache' = r.cache
            /\ detector' = "parallel"

\* FileOrganizer.find_duplicates with parallel left at its default (False)
FindDuplicates ==
    /\ NotGrouped
    /\ DetectSequential
    /\ UNCHANGED <<probe, fs, dirs, config, io, scanned_files, version_groups,
                   classifications, operations, results, reports, before>>

\* files=None: the scanned files, scanning first when there are none.
ScannedOrScan == IF scanned_files = <<>>
                 THEN ScanAll(fs, config.target_directories) ELSE scanned_files

\* The optional ssdeep library is taken not to be installed here.
FindVersionGroups ==
    /\ NotClassified
    /\ scanned_files' = ScannedOrScan
    /\ version_groups' = find_version_groups(fs, ScannedOrScan, FALSE)
    /\ UNCHANGED <<probe, fs, dirs, config, io, duplicates, detector, classifications,
                   operations, hash_cache, results, reports, before>>

\* by_content and by_date are left at their defaults (True), as every caller
\* of the organizer passes them.
ClassifyFiles(exclude_duplicates, keep_strategy) ==
    /\ NotPlanned
    /\ scanned_files' = ScannedOrScan
    /\ LET exclude_paths == IF exclude_duplicates /\ duplicates # <<>>
                            THEN ExcludePaths(duplicates, keep_strategy) ELSE {}
           files == SelectSeq(ScannedOrScan, LAMBDA x : x.path \notin exclude_paths)
       IN  classifications' = ClassifyAll(fs, files, TRUE)
    /\ UNCHANGED <<probe, fs, dirs, config, io, duplicates, detector, version_groups,
                   operations, hash_cache, results, reports, before>>

\* plan_cleanup that carries each operation out as soon as it is planned.
PlanCleanupMoving(do_dup, do_ver, do_org, keep_strategy) ==
    /\ NotPlanned
    /\ LET planned == plan_cleanup(fs, config, duplicates, version_groups,
                                   classifications, do_dup, do_ver, do_org,
                                   keep_strategy)
           r == execute_operations(fs, dirs, planned, FALSE, <<>>, FALSE)
       IN  /\ operations' = planned
           /\ fs' = r.fs
           /\ dirs' = r.dirs
    /\ UNCHANGED <<probe, config, io, scanned_files, duplicates, detector,
                   version_groups, classifications, hash_cache, results, reports,
                   before>>

PlanCleanup(do_dup, do_ver, do_org, keep_strategy) ==
    /\ NotPlanned
    /\ operations' = plan_cleanup(fs, config, duplicates, version_groups,
                                  classifications, do_dup, do_ver, do_org,
                                  keep_strategy)
    /\ UNCHANGED <<probe, fs, dirs, config, io, scanned_files, duplicates, detector,
                   version_groups, classifications, hash_cache, results, reports,
                   before>>

\* FileOrganizer.execute; in a real run send2trash may or may not work.
Execute(dry_run) ==
    /\ NotExecuted
    /\ \E trash_ok \in (IF dry_run \/ ~config.use_recycle_bin THEN {TRUE} ELSE BOOLEAN) :
          LET r == execute_operations(fs, dirs, operations, dry_run, <<>>, trash_ok)
          IN  /\ fs' = r.fs
              /\ dirs' = r.dirs
              /\ operations' = r.operations
              /\ results' = r.results
    /\ UNCHANGED <<probe, config, io, scanned_files, duplicates, detector, version_groups,
                   classifications, hash_cache, reports, before>>

Next ==
    \/ scan_directories
    \/ FindDuplicates
    \/ FindVersionGroups
    \/ \E exclude_duplicates \in BOOLEAN, keep_strategy \in KeepStrategies :
          ClassifyFiles(exclude_duplicates, keep_strategy)
    \/ \E do_dup, do_ver, do_org \in BOOLEAN, keep_strategy \in KeepStrategies :
          PlanCleanup(do_dup, do_ver, do_org, keep_strategy)
    \/ \E dry_run \in BOOLEAN : Execute(dry_run)

Spec == Init /\ [][Next]_vars

----------------------------------------------------------------------------
(* DuplicateFinder on its own: files of several sizes, one of which may be  *)
(* unreadable, and both detectors, run any number of times on one finder.   *)

InitDetect ==
    /\ Fresh
    /\ fs \in Layouts(DetectContents, {0})
    /\ dirs = {}
    /\ config \in [target_directories : TargetLists, use_recycle_bin : {FALSE}]
    /\ io \in IoChoices
    /\ before = [fs |-> fs, dirs |-> dirs]

RunSequential ==
    /\ DetectSequential
    /\ UNCHANGED <<probe, fs, dirs, config, io, scanned_files, version_groups,
                   classifications, operations, results, reports, before>>

RunParallel ==
    /\ DetectParallel
    /\ UNCHANGED <<probe, fs, dirs, config, io, scanned_files, version_groups,
                   classifications, operations, results, reports, before>>

NextDetect == RunSequential \/ RunParallel

SpecDetect == InitDetect /\ [][NextDetect]_vars

----------------------------------------------------------------------------
(* The programmatic dry run of the examples: scan, find_duplicates,         *)
(* classify_files, plan_cleanup(duplicates, organize) and                   *)
(* execute(dry_run=True), all arguments at their defaults, on a new         *)
(* FileOrganizer or on the one of the pass before (which keeps its hash     *)
(* cache).  reports collects what each pass returned and would print.       *)

DryRunPass(reuse) ==
    /\ Len(reports) < MaxPasses
    /\ LET targets == config.target_directories
           scanned == ScanAll(fs, targets)
           found == find_duplicates(fs, io, IF reuse THEN hash_cache ELSE <<>>,
                                    targets)
           exclude_paths == IF found.groups # <<>>
                            THEN ExcludePaths(found.groups, "newest") ELSE {}
           files == SelectSeq(scanned, LAMBDA x : x.path \notin exclude_paths)
           classified == ClassifyAll(fs, files, TRUE)
           planned == plan_cleanup(fs, config, found.groups, <<>>, classified,
                                   TRUE, FALSE, TRUE, "newest")
       IN  \E r \in {execute_operations(fs, dirs, planned, TRUE, <<>>, TRUE)} :
           /\ scanned_files' = scanned
           /\ duplicates' = found.groups
           /\ hash_cache' = found.cache
           /\ detector' = "sequential"
           /\ classifications' = classified
           /\ fs' = r.fs
           /\ dirs' = r.dirs
           /\ operations' = r.operations
           /\ results' = r.results
           /\ reports' = Append(reports, [results |-> r.results,
                                         text |-> get_dry_run_report(r.operations)])
    /\ UNCHANGED <<probe, config, io, version_groups, before>>

NextDriver == \E reuse \in BOOLEAN : DryRunPass(reuse)

SpecDriver == Init /\ [][NextDriver]_vars

----------------------------------------------------------------------------
(* Properties of the plan and of its execution, under Spec *)

RealRunDone == results.ran /\ ~results.dry_run

\* No target directory lies in another: every file is scanned once.
ScannedOnce ==
    \A path \in Range(TargetPaths) :
        Cardinality({i \in DOMAIN config.target_directories :
                        Under(path, config.target_directories[i])}) <= 1

\* C1: (target directories that do not overlap) after a real execution every
\* operation reported as success that was carried out as a move has the
\* content its source had before the run at its own destination, and every
\* file that existed before the run and is still there is as it was.
C1_RealRunNeverOverwrites ==
    (ScannedOnce /\ RealRunDone) =>
        /\ \A i \in DOMAIN operations :
              (operations[i].status = "success" /\ operations[i].action # "recycle")
              => /\ Exists(fs, operations[i].destination)
                 /\ fs[operations[i].destination].content
                      = before.fs[operations[i].source].content
        /\ \A path \in DOMAIN before.fs \cap DOMAIN fs : fs[path] = before.fs[path]

\* C2: (target directories that do not overlap) no two operations of one
\* plan have the same destination path.
C2_DestinationsDistinct ==
    ScannedOnce => \A i, j \in DOMAIN operations :
        i # j => operations[i].destination # operations[j].destination

\* C3: until the plan is executed, the destination of every planned operation
\* is a path at which no file exists, and a destination that carries a counter
\* is the computed path, which exists, with the counter appended to its stem.
C3_DestinationIsFree ==
    NotExecuted =>
        \A i \in DOMAIN operations :
            LET destination == operations[i].destination
            IN  /\ ~Exists(fs, destination)
                /\ destination.sfx # <<>>
                   => /\ Len(destination.sfx) = 1
                      /\ Exists(fs, Path(destination.dir, destination.stem, <<>>))

\* C3 witness: a planned operation whose destination got a counter because
\* the computed path is taken.
C3_Witness ==
    /\ NotExecuted
    /\ \E i \in DOMAIN operations :
          /\ operations[i].destination.sfx # <<>>
          /\ Exists(fs, Path(operations[i].destination.dir,
                             operations[i].destination.stem, <<>>))

\* C4: (target directories that do not overlap) no file is the source of a
\* duplicate ARCHIVE/RECYCLE operation and also the source of a classification
\* MOVE operation of the same plan.
C4_DuplicateResolvedOnce ==
    ScannedOnce => \A i, j \in DOMAIN operations :
        (/\ operations[i].reason.why = "duplicate"
         /\ operations[i].action \in {"archive", "recycle"}
         /\ operations[j].action = "move")
        => operations[i].source # operations[j].source

KeepKey(x, keep_strategy) ==
    CASE keep_strategy = "newest" -> x.modified_time
      [] keep_strategy = "oldest" -> 0 - x.modified_time
      [] keep_strategy = "largest" -> x.size
      [] keep_strategy = "smallest" -> 0 - x.size

\* C10: for every detected group of n members and every keep strategy,
\* plan_duplicate_cleanup emits n - 1 operations, all ARCHIVE or RECYCLE,
\* exactly one member is the source of none of them and is extremal for the
\* strategy, and every other member is the source of one.
C10_KeepsExactlyOne ==
    \A g \in DOMAIN duplicates, keep_strategy \in KeepStrategies :
        LET files == duplicates[g].files
            ops == plan_duplicate_cleanup(fs, config, <<duplicates[g]>>, keep_strategy)
            sources == {ops[i].source : i \in DOMAIN ops}
            retained == {i \in DOMAIN files : files[i].path \notin sources}
        IN  /\ Len(ops) = Len(files) - 1
            /\ \A i \in DOMAIN ops : ops[i].action \in {"archive", "recycle"}
            /\ Cardinality(retained) = 1
            /\ \A k \in retained, i \in DOMAIN files :
                  KeepKey(files[k], keep_strategy) >= KeepKey(files[i], keep_strategy)
            /\ \A i \in DOMAIN files \ retained :
                  Cardinality({j \in DOMAIN ops : ops[j].source = files[i].path}) = 1

----------------------------------------------------------------------------
(* Properties of the detector, under SpecDetect *)

ScannedPaths ==
    {ScanAll(fs, config.target_directories)[i].path :
        i \in DOMAIN ScanAll(fs, config.target_directories)}

InGroup(path, g) == \E i \in DOMAIN duplicates[g].files : duplicates[g].files[i].path = path

Grouped(path) == \E g \in DOMAIN duplicates : InGroup(path, g)

C8_GroupedIffSameContent ==
    (detector # "none" /\ io = AllReadable) =>
        /\ \A p, q \in ScannedPaths :
              p # q => ((\E g \in DOMAIN duplicates : InGroup(p, g) /\ InGroup(q, g))
                        <=> fs[p].content = fs[q].content)
        /\ \A p \in ScannedPaths :
              (\A q \in ScannedPaths \ {p} : fs[q].content # fs[p].content)
              => ~Grouped(p)

\* The files whose fingerprint the last detector run failed to compute: the
\* sequential detector reads the partial and the full one, the parallel
\* detector only the full one.
FailedToHash ==
    {path \in ScannedPaths :
        \/ io[path].full /\ path \notin DOMAIN hash_cache
        \/ io[path].partial /\ detector = "sequential"}

\* C9: a file whose fingerprint could not be computed is in no reported
\* group, no group stands for the missing fingerprint, and the run reports
\* the groups of the readable files: two of them with the same content are
\* in one group.
C9_UnreadableFileIsSkipped ==
    detector # "none" =>
        /\ \A path \in FailedToHash : ~Grouped(path)
        /\ \A g \in DOMAIN duplicates : duplicates[g].hash # NoHash
        /\ \A p, q \in ScannedPaths \ FailedToHash :
              (p # q /\ fs[p].content = fs[q].content)
              => \E g \in DOMAIN duplicates : InGroup(p, g) /\ InGroup(q, g)

\* C9 witness: one of three files with the same content could not be
\* fingerprinted, and the other two are reported as a group.
C9_Witness ==
    /\ detector # "none"
    /\ \E path \in FailedToHash : \E g \in DOMAIN duplicates :
          /\ duplicates[g].hash = SHA256(fs[path].content)
          /\ ~InGroup(path, g)

----------------------------------------------------------------------------
(* Properties of the dry run, under SpecDriver *)

----------------------------------------------------------------------------
(* FileMover.execute_operations on its own: a list of operations handed to  *)
(* it (the operations argument), of every action kind, some on files that   *)
(* are not there, with the faults the operating system may raise.           *)

\* the longest list of operations handed to execute_operations
MaxOps == 2

Faults == {"none", "mkdir", "os", "raise"}

MoveActions == {"move", "copy", "archive", "recycle"}

\* The operations a caller may build on the first two target files.
HandmadeOperations ==
    {MoveOperation(TargetPaths[k],
                   Path(Dir("Duplicates", "", 0, 0), TargetPaths[k].stem, <<>>),
                   action, "handmade", NoName, "", 1) :
        k \in 1..2, action \in MoveActions}

InitExec ==
    /\ \E S \in SUBSET {TargetPaths[1], TargetPaths[2]} :
          fs \in [S -> [content : {<<0>>}, mtime : {0}]]
    /\ dirs = {}
    /\ config = [target_directories |-> <<"Root">>, use_recycle_bin |-> FALSE]
    /\ io = AllReadable
    /\ before = [fs |-> fs, dirs |-> dirs]
    /\ scanned_files = <<>>
    /\ duplicates = <<>>
    /\ detector = "none"
    /\ version_groups = <<>>
    /\ classifications = <<>>
    /\ \E n \in 0..MaxOps : operations \in [1..n -> HandmadeOperations]
    /\ hash_cache = <<>>
    /\ results = NoResults
    /\ reports = <<>>
    /\ probe = NoProbe

\* execute_operations(operations, dry_run), under every fault of the
\* operating system and with send2trash working or not
ExecuteOperations(dry_run) ==
    /\ NotExecuted
    /\ \E faults \in [1..Len(operations) -> Faults], trash_ok \in BOOLEAN :
          LET r == execute_operations(fs, dirs, operations, dry_run, faults, trash_ok)
          IN  /\ fs' = r.fs
              /\ dirs' = r.dirs
              /\ operations' = r.operations
              /\ results' = r.results
    /\ UNCHANGED <<probe, config, io, scanned_files, duplicates, detector, version_groups,
                   classifications, hash_cache, reports, before>>

NextExec == \E dry_run \in BOOLEAN : ExecuteOperations(dry_run)

SpecExec == InitExec /\ [][NextExec]_vars

----------------------------------------------------------------------------
(* Properties of execute_operations, under SpecExec *)

Failed(ops) == {i \in 1..Len(ops) : ops[i].status = "failed"}

Succeeded(ops) == {i \in 1..Len(ops) : ops[i].status = "success"}

\* C11: in a real run a failing operation (missing source, directory that
\* cannot be made, OS error, any other exception) is marked failed with its
\* error recorded, and the loop goes on: when execute_operations returns no
\* operation is left unattempted, each one has either succeeded or failed.
C11_FailureIsIsolated ==
    RealRunDone =>
        \A i \in 1..Len(operations) :
            /\ operations[i].status \in {"success", "failed"}
            /\ operations[i].status = "failed" => operations[i].error_message # ""

\* An operation failed and a later one went through all the same.
C11_Witness ==
    /\ RealRunDone
    /\ \E i \in Failed(operations), j \in Succeeded(operations) : i < j

\* C12: after a real run total = success + failed + skipped, every operation
\* is success or failed, the counts are the numbers of operations with that
\* status, and the errors are one {file, error} entry per failed operation.
C12_CountsPartitionOperations ==
    RealRunDone =>
        /\ results.total = results.success + results.failed + results.skipped
        /\ results.total = Len(operations)
        /\ \A i \in 1..Len(operations) : operations[i].status \in {"success", "failed"}
        /\ results.success = Cardinality(Succeeded(operations))
        /\ results.failed = Cardinality(Failed(operations))
        /\ results.errors =
             LET failed == SelectSeq(operations, LAMBDA op : op.status = "failed")
             IN  [k \in 1..Len(failed) |->
                    [file |-> failed[k].source, error |-> failed[k].error_message]]

----------------------------------------------------------------------------
(* VersionManager._extract_base_name on its own: stems put together from a  *)
(* few pieces (a plain letter, the version letter in both cases, a digit, a *)
(* bracketed number, separators, a status word), normalised once and then   *)
(* again.                                                                   *)

\* the longest stem, in pieces
MaxPieces == 4

StemPieces ==
    { <<"x">>, <<"v">>, <<"V">>, <<"1">>, <<"(", "1", ")">>, <<"_">>, <<" ">>,
      <<"f", "i", "n", "a", "l">> }

\* Nothing of the organizer is in use.
Unused ==
    /\ fs = <<>>
    /\ dirs = {}
    /\ config = [target_directories |-> <<"Root">>, use_recycle_bin |-> FALSE]
    /\ io = AllReadable
    /\ before = [fs |-> fs, dirs |-> dirs]
    /\ scanned_files = <<>>
    /\ duplicates = <<>>
    /\ detector = "none"
    /\ version_groups = <<>>
    /\ classifications = <<>>
    /\ operations = <<>>
    /\ hash_cache = <<>>
    /\ results = NoResults
    /\ reports = <<>>

InitNames ==
    /\ Unused
    /\ \E n \in 0..MaxPieces : \E pieces \in [1..n -> StemPieces] :
          probe = [fn |-> "_extract_base_name", calls |-> 0,
                   arg |-> Flatten(pieces), ret |-> Flatten(pieces)]

\* _extract_base_name called on what the last call returned (on the stem the
\* first time)
ExtractBaseName ==
    /\ probe.calls < 2
    /\ probe' = [probe EXCEPT !.calls = @ + 1, !.arg = probe.ret,
                              !.ret = _extract_base_name(probe.ret)]
    /\ UNCHANGED <<fs, dirs, config, io, scanned_files, duplicates, detector,
                   version_groups, classifications, operations, hash_cache,
                   results, reports, before>>

NextNames == ExtractBaseName

SpecNames == InitNames /\ [][NextNames]_vars

\* C14: filename normalisation is idempotent: normalising a stem that
\* _extract_base_name returned gives that stem back, also when removing one
\* marker brought its neighbours together into a new marker.
C14_NormalizationIdempotent ==
    (probe.fn = "_extract_base_name" /\ probe.calls = 2) => probe.ret = probe.arg

----------------------------------------------------------------------------
(* VersionManager on its own: files whose stems carry version markers and a *)
(* status word, of equal, similar and different content, grouped with and   *)
(* without the fuzzy-hash library, and each group analysed.                 *)

\* x_v1, X_final, xy_v1, xy(1): two base names, similar to each other
VersionStems ==
    << <<"x", "_", "v", "1">>, <<"X", "_", "f", "i", "n", "a", "l">>,
       <<"x", "y", "_", "v", "1">>, <<"x", "y", "(", "1", ")">> >>

VersionPaths == [k \in 1..Len(VersionStems) |-> Path(TargetDir("D1"), VersionStems[k], <<>>)]

\* Two contents that are not similar to each other (half of the bytes
\* differ); files of the same content are.
VersionContents == {<<0, 0, 0, 0>>, <<1, 1, 0, 0>>}

InitVersions ==
    /\ \E S \in SUBSET Range(VersionPaths) :
          fs \in [S -> [content : VersionContents, mtime : Mtimes]]
    /\ dirs = {}
    /\ config \in [target_directories : {<<"D1">>}, use_recycle_bin : {FALSE},
                   ssdeep_available : BOOLEAN]
    /\ io = AllReadable
    /\ before = [fs |-> fs, dirs |-> dirs]
    /\ Fresh

\* find_version_groups(files) on the files that exist, in the order of the
\* directory walk
FindVersionGroupsOfFiles ==
    /\ probe.fn = "none"
    /\ LET found == SelectSeq(VersionPaths, LAMBDA p : Exists(fs, p))
           files == [i \in 1..Len(found) |-> FileInfo(fs, found[i])]
       IN  /\ scanned_files' = files
           /\ version_groups' = find_version_groups(fs, files, config.ssdeep_available)
    /\ probe' = [fn |-> "find_version_groups"]
    /\ UNCHANGED <<fs, dirs, config, io, duplicates, detector, classifications,
                   operations, hash_cache, results, reports, before>>

\* analyze_version_group(group) on one of the groups found
AnalyzeVersionGroup(k) ==
    /\ probe.fn = "find_version_groups"
    /\ k \in 1..Len(version_groups)
    /\ probe' = [fn |-> "analyze_version_group", arg |-> version_groups[k],
                 ret |-> analyze_version_group(version_groups[k])]
    /\ UNCHANGED <<fs, dirs, config, io, scanned_files, duplicates, detector,
                   version_groups, classifications, operations, hash_cache,
                   results, reports, before>>

NextVersions ==
    \/ FindVersionGroupsOfFiles
    \/ \E k \in 1..Len(VersionStems) : AnalyzeVersionGroup(k)

SpecVersions == InitVersions /\ [][NextVersions]_vars

FinalTagged(files) ==
    {i \in 1..Len(files) : _extract_version_info(files[i].path.stem).status = "final"}

\* C15: analyze_version_group recommends keeping a member with a final
\* status tag when a member has one, else a member of the greatest
\* modification time; the file to keep is a member and the files to archive
\* are exactly the other members.
C15_KeepFinalElseNewest ==
    probe.fn = "analyze_version_group" =>
        LET files == probe.arg.files
            members == {files[i].path : i \in 1..Len(files)}
            keep == probe.ret.recommended_keep
        IN  /\ keep \in members
            /\ FinalTagged(files) # {} =>
                  \E i \in FinalTagged(files) : files[i].path = keep
            /\ FinalTagged(files) = {} =>
                  \E i \in 1..Len(files) :
                      /\ files[i].path = keep
                      /\ \A j \in 1..Len(files) :
                            files[j].modified_time <= files[i].modified_time
            /\ Range(probe.ret.recommended_archive) = members \ {keep}

\* A group whose final-tagged member is older than another member was
\* analysed: the tagged one is kept, the newer one archived.
C15_Witness ==
    /\ probe.fn = "analyze_version_group"
    /\ \E i \in FinalTagged(probe.arg.files), j \in 1..Len(probe.arg.files) :
          /\ probe.arg.files[i].path = probe.ret.recommended_keep
          /\ probe.arg.files[j].modified_time > probe.arg.files[i].modified_time
          /\ probe.arg.files[j].path \in Range(probe.ret.recommended_archive)

----------------------------------------------------------------------------
(* FileClassifier on its own: one file of every type, readable or not, and  *)
(* category tables with a category added by add_category.                   *)

\* self.categories: the default table, and the table after add_category with
\* no keyword, one keyword, the same keyword twice, ten keywords of which
\* one is in a content of the model (a score of exactly 1/10).
CategoryTables ==
    {categories} \cup
    {categories \o <<[name |-> "mine", keywords |-> kw]>> :
        kw \in {<<>>, <<1>>, <<1, 1>>, <<1, 9, 9, 9, 9, 9, 9, 9, 9, 9>>}}

ClassifyContents == {<<>>, <<0>>, <<1>>, <<0, 2>>, <<1, 3>>}

InitClassify ==
    /\ fs \in [{TargetPaths[1]} -> [content : ClassifyContents, mtime : Mtimes]]
    /\ dirs = {}
    /\ config = [target_directories |-> <<"Root">>, use_recycle_bin |-> FALSE]
    /\ io = AllReadable
    /\ before = [fs |-> fs, dirs |-> dirs]
    /\ scanned_files = <<>>
    /\ duplicates = <<>>
    /\ detector = "none"
    /\ version_groups = <<>>
    /\ classifications = <<>>
    /\ operations = <<>>
    /\ hash_cache = <<>>
    /\ results = NoResults
    /\ reports = <<>>
    /\ probe \in [fn : {"none"}, file_type : FileTypes, readable : BOOLEAN,
                  table : CategoryTables]

ClassifyByContent ==
    /\ probe.fn = "none"
    /\ probe' = [fn |-> "classify_by_content", file_type |-> probe.file_type,
                 readable |-> probe.readable, table |-> probe.table,
                 ret |-> classify_by_content(fs, FileInfo(fs, TargetPaths[1]),
                                             probe.file_type, probe.readable,
                                             probe.table)]
    /\ UNCHANGED <<fs, dirs, config, io, scanned_files, duplicates, detector,
                   version_groups, classifications, operations, hash_cache,
                   results, reports, before>>

ClassifyByDate ==
    /\ probe.fn = "none"
    /\ probe' = [fn |-> "classify_by_date", file_type |-> probe.file_type,
                 readable |-> probe.readable, table |-> probe.table,
                 ret |-> classify_by_date(FileInfo(fs, TargetPaths[1]),
                                          probe.file_type)]
    /\ UNCHANGED <<fs, dirs, config, io, scanned_files, duplicates, detector,
                   version_groups, classifications, operations, hash_cache,
                   results, reports, before>>

NextClassify == ClassifyByContent \/ ClassifyByDate

SpecClassify == InitClassify /\ [][NextClassify]_vars

Classified == probe.fn \in {"classify_by_content", "classify_by_date"}

InUnitInterval(x) == 0 <= x.num /\ x.num <= x.den /\ x.den > 0

\* C16 as stated: the result of classify_by_content or classify_by_date has
\* a confidence in [0, 1], and a file of an unrecognized extension or a text
\* file whose content cannot be read gets the catch-all category.
C16_ConfidenceAndCatchAll ==
    Classified =>
        /\ InUnitInterval(probe.ret.confidence)
        /\ (probe.file_type = "other" \/ (probe.file_type = "text" /\ ~probe.readable))
              => probe.ret.category = "etc"

\* C16 amended: the confidence is in [0, 1] for both functions and every
\* category table; a file of an unrecognized extension gets the catch-all
\* category from both; a text file whose content cannot be read gets it from
\* classify_by_content (classify_by_date does not read the file).
C16_ConfidenceAndCatchAllByContent ==
    Classified =>
        /\ InUnitInterval(probe.ret.confidence)
        /\ probe.file_type = "other" => probe.ret.category = "etc"
        /\ (probe.fn = "classify_by_content" /\ probe.file_type = "text"
              /\ ~probe.readable) => probe.ret.category = "etc"

\* classify_by_content met a text file it could not read, whose content
\* holds a keyword of the table, and a category was added by the user.
C16_Witness ==
    /\ probe.fn = "classify_by_content"
    /\ probe.file_type = "text"
    /\ ~probe.readable
    /\ Len(probe.table) > Len(categories)
    /\ 0 \in Range(fs[TargetPaths[1]].content)
    /\ probe.ret.category = "etc"

----------------------------------------------------------------------------
(* One DuplicateFinder run again after a file was rewritten: the target     *)
(* directory is scanned once per run (no nested directory), every file is   *)
(* readable, and between two runs a file may get another content of the     *)
(* same size.                                                               *)

\* Two contents of one size that differ outside the samples of the partial
\* fingerprint.
RerunContents == {<<0, 0, 0, 0>>, <<0, 1, 0, 0>>}

InitRerun ==
    /\ fs \in Layouts(RerunContents, {0})
    /\ dirs = {}
    /\ config = [target_directories |-> <<"Root">>, use_recycle_bin |-> FALSE]
    /\ io = AllReadable
    /\ before = [fs |-> fs, dirs |-> dirs]
    /\ scanned_files = <<>>
    /\ duplicates = <<>>
    /\ detector = "none"
    /\ version_groups = <<>>
    /\ classifications = <<>>
    /\ operations = <<>>
    /\ hash_cache = <<>>
    /\ results = NoResults
    /\ reports = <<>>
    /\ probe = [fn |-> "none", runs |-> 0]

\* FileOrganizer.find_duplicates(parallel) on the finder the organizer made
\* when it was constructed
FindDuplicatesAgain(parallel) ==
    /\ probe.runs < MaxPasses
    /\ IF parallel THEN DetectParallel ELSE DetectSequential
    /\ probe' = [fn |-> "find_duplicates", runs |-> probe.runs + 1]
    /\ UNCHANGED <<fs, dirs, config, io, scanned_files, version_groups,
                   classifications, operations, results, reports, before>>

\* Somebody rewrites a file between two runs: other bytes, the same size.
RewriteFile(path, content) ==
    /\ probe.fn = "find_duplicates"
    /\ Exists(fs, path)
    /\ content # fs[path].content
    /\ Size(content) = Size(fs[path].content)
    /\ fs' = [fs EXCEPT ![path].content = content]
    /\ probe' = [probe EXCEPT !.fn = "write"]
    /\ UNCHANGED <<dirs, config, io, scanned_files, duplicates, detector,
                   version_groups, classifications, operations, hash_cache,
                   results, reports, before>>

NextRerun ==
    \/ \E parallel \in BOOLEAN : FindDuplicatesAgain(parallel)
    \/ \E path \in Range(TargetPaths), content \in RerunContents :
          RewriteFile(path, content)

SpecRerun == InitRerun /\ [][NextRerun]_vars

\* C17: a repeated run serves no stale hash: after every find_duplicates run
\* the files are grouped by the content they have now, also when a file was
\* rewritten (size unchanged) since the run before on the same finder.
C17_NoStaleHash ==
    probe.fn = "find_duplicates" =>
        \A p, q \in ScannedPaths :
            p # q => ((\E g \in DOMAIN duplicates : InGroup(p, g) /\ InGroup(q, g))
                      <=> fs[p].content = fs[q].content)

----------------------------------------------------------------------------
(* FileMover.get_dry_run_report on its own: lists of archive and move       *)
(* operations, short ones and ones longer than the report lists in full.    *)

\* the most operations of one action kind in a list
MaxPerAction == 21

\* n_archive ARCHIVE operations followed by n_move MOVE operations on files
\* a_1, a_2, ... of the given size
PlannedOperations(n_archive, n_move, size) ==
    [i \in 1..(n_archive + n_move) |->
        MoveOperation(Path(TargetDir("D1"), <<"a">>, <<i>>),
                      Path(Dir("Duplicates", "", 0, 0), <<"a">>, <<i>>),
                      IF i <= n_archive THEN "archive" ELSE "move",
                      "handmade", NoName, "", size)]

InitReport ==
    /\ fs = <<>>
    /\ dirs = {}
    /\ config = [target_directories |-> <<"Root">>, use_recycle_bin |-> FALSE]
    /\ io = AllReadable
    /\ before = [fs |-> fs, dirs |-> dirs]
    /\ scanned_files = <<>>
    /\ duplicates = <<>>
    /\ detector = "none"
    /\ version_groups = <<>>
    /\ classifications = <<>>
    /\ \E n_archive, n_move \in 0..MaxPerAction, size \in 1..2 :
          operations = PlannedOperations(n_archive, n_move, size)
    /\ hash_cache = <<>>
    /\ results = NoResults
    /\ reports = <<>>
    /\ probe = NoProbe

\* get_dry_run_report() on self.operations
GetDryRunReport ==
    /\ probe.fn = "none"
    /\ probe' = [fn |-> "get_dry_run_report", ret |-> get_dry_run_report(operations)]
    /\ UNCHANGED <<fs, dirs, config, io, scanned_files, duplicates, detector,
                   version_groups, classifications, operations, hash_cache,
                   results, reports, before>>

NextReport == GetDryRunReport

SpecReport == InitReport /\ [][NextReport]_vars

RECURSIVE SumOfSizes(_)
SumOfSizes(ops) == IF ops = <<>> THEN 0 ELSE Head(ops).size + SumOfSizes(Tail(ops))

\* C18: the aggregate size of the dry-run report is the sum of the sizes of
\* all operations of the list, however many operations an action kind has.
C18_ReportSumsAllSizes ==
    probe.fn = "get_dry_run_report" => probe.ret.total_size = SumOfSizes(operations)

----------------------------------------------------------------------------
(* Order of the reported groups, under SpecDetect *)

\* The total size of the members of a group other than member k.
SizeOfOthers(group, k) ==
    LET RECURSIVE Sum(_)
        Sum(i) == IF i > Len(group.files) THEN 0
                  ELSE (IF i = k THEN 0 ELSE group.files[i].size) + Sum(i + 1)
    IN  Sum(1)

----------------------------------------------------------------------------
(* find_duplicates_parallel thread by thread: one worker per file to hash   *)
(* (process_file -> _calculate_hash) and the thread that collects the       *)
(* futures as they complete.  probe holds the call: files_to_hash, where    *)
(* each worker stands (pc), what its future holds (result), the hashed      *)
(* files collected so far, and writes, the history of which thread wrote    *)
(* which object.                                                            *)

WorkerContents == {<<0>>, <<1>>}

InitWorkers ==
    /\ fs \in Layouts(WorkerContents, {0})
    /\ dirs = {}
    /\ config = [target_directories |-> <<"Root">>, use_recycle_bin |-> FALSE]
    /\ io \in IoChoices
    /\ before = [fs |-> fs, dirs |-> dirs]
    /\ Fresh

\* The call up to executor.submit for every file to hash.
SubmitWorkers ==
    /\ probe.fn = "none"
    /\ LET files_to_hash == SizeCandidates(ScanAll(fs, config.target_directories))
       IN  probe' = [fn |-> "find_duplicates_parallel",
                     files_to_hash |-> files_to_hash,
                     pc |-> [i \in 1..Len(files_to_hash) |-> "submitted"],
                     result |-> [i \in 1..Len(files_to_hash) |-> NoHash],
                     collected |-> <<>>,
                     writes |-> {}]
    /\ UNCHANGED <<fs, dirs, config, io, scanned_files, duplicates, detector,
                   version_groups, classifications, operations, hash_cache,
                   results, reports, before>>

Running == probe.fn = "find_duplicates_parallel"

Wrote(thread, object) == [thread |-> thread, object |-> object]

\* Worker i, _calculate_hash up to the end of the read: the cached hash when
\* the path is in the cache, else the hash of the file, or None when the
\* read fails.
WorkerCalculates(i) ==
    /\ Running
    /\ i \in DOMAIN probe.pc
    /\ probe.pc[i] = "submitted"
    /\ LET path == probe.files_to_hash[i].path
           r == _calculate_hash(fs, io, hash_cache, path)
       IN  probe' = [probe EXCEPT
                        !.pc[i] = IF path \in DOMAIN hash_cache \/ r[1] = NoHash
                                  THEN "done" ELSE "hashed",
                        !.result[i] = r[1],
                        !.writes = @ \cup {Wrote(<<"worker", i>>, <<"result", i>>)}]
    /\ UNCHANGED <<fs, dirs, config, io, scanned_files, duplicates, detector,
                   version_groups, classifications, operations, hash_cache,
                   results, reports, before>>

\* Worker i, self._hash_cache[file_path] = hash_value, and the return.
WorkerStores(i) ==
    /\ Running
    /\ i \in DOMAIN probe.pc
    /\ probe.pc[i] = "hashed"
    /\ LET path == probe.files_to_hash[i].path
       IN  hash_cache' = [p \in DOMAIN hash_cache \cup {path} |->
                             IF p = path THEN probe.result[i] ELSE hash_cache[p]]
    /\ probe' = [probe EXCEPT
                    !.pc[i] = "done",
                    !.writes = @ \cup {Wrote(<<"worker", i>>, <<"_hash_cache">>)}]
    /\ UNCHANGED <<fs, dirs, config, io, scanned_files, duplicates, detector,
                   version_groups, classifications, operations, results, reports,
                   before>>

\* The collecting thread takes a completed future and files its result in
\* hash_groups.
Collect(i) ==
    /\ Running
    /\ i \in DOMAIN probe.pc
    /\ probe.pc[i] = "done"
    /\ probe' = [probe EXCEPT
                    !.pc[i] = "collected",
                    !.collected = IF probe.result[i] # NoHash
                                  THEN Append(@, [probe.files_to_hash[i] EXCEPT
                                                     !.hash = probe.result[i]])
                                  ELSE @,
                    !.writes = IF probe.result[i] # NoHash
                               THEN @ \cup {Wrote(<<"collector">>, <<"hash_groups">>)}
                               ELSE @]
    /\ UNCHANGED <<fs, dirs, config, io, scanned_files, duplicates, detector,
                   version_groups, classifications, operations, hash_cache,
                   results, reports, before>>

\* Every future is collected: the groups are filtered, sorted and returned.
ReturnDuplicates ==
    /\ Running
    /\ \A i \in DOMAIN probe.pc : probe.pc[i] = "collected"
    /\ duplicates' = ReportGroups(probe.collected)
    /\ detector' = "parallel"
    /\ probe' = [probe EXCEPT !.fn = "returned"]
    /\ UNCHANGED <<fs, dirs, config, io, scanned_files, version_groups,
                   classifications, operations, hash_cache, results, reports,
                   before>>

NextWorkers ==
    \/ SubmitWorkers
    \/ \E i \in 1..Len(TargetPaths) : WorkerCalculates(i) \/ WorkerStores(i) \/ Collect(i)
    \/ ReturnDuplicates

SpecWorkers == InitWorkers /\ [][NextWorkers]_vars

\* C20: under every interleaving a worker writes nothing but its own result
\* (no object shared between the workers is written by a worker), and the
\* fingerprint-to-group map is written by the collecting thread only.
C20_WorkersShareNothing ==
    probe.fn \in {"find_duplicates_parallel", "returned"} =>
        \A w \in probe.writes :
            /\ w.thread[1] = "worker" => w.object = <<"result", w.thread[2]>>
            /\ w.object = <<"hash_groups">> => w.thread = <<"collector">>

----------------------------------------------------------------------------
(* VersionManager._merge_similar_groups on its own: candidate groups in     *)
(* every order, with base names of which some are similar in a chain only   *)
(* (xy ~ xyz ~ yzw ~ zw, and q similar to none).                            *)

MaxGroups == 3

MergeNames ==
    { <<"x", "y">>, <<"x", "y", "z">>, <<"y", "z", "w">>, <<"z", "w">>, <<"q">> }

\* A candidate group as find_version_groups makes it: two files of the base
\* name, newest first.
CandidateGroup(base_name) ==
    VersionGroup(base_name,
        << [path |-> Path(TargetDir("D1"), base_name \o <<"_", "v", "2">>, <<>>),
            size |-> 1, hash |-> NoHash, modified_time |-> 1],
           [path |-> Path(TargetDir("D1"), base_name \o <<"_", "v", "1">>, <<>>),
            size |-> 1, hash |-> NoHash, modified_time |-> 0] >>)

InitMerge ==
    /\ Unused
    /\ \E n \in 0..MaxGroups : \E names \in [1..n -> MergeNames] :
          /\ \A i, j \in 1..n : i # j => names[i] # names[j]
          /\ probe = [fn |-> "_merge_similar_groups", called |-> FALSE,
                      arg |-> [i \in 1..n |-> CandidateGroup(names[i])],
                      ret |-> <<>>]

MergeSimilarGroups ==
    /\ ~probe.called
    /\ probe' = [probe EXCEPT !.called = TRUE, !.ret = _merge_similar_groups(probe.arg)]
    /\ UNCHANGED <<fs, dirs, config, io, scanned_files, duplicates, detector,
                   version_groups, classifications, operations, hash_cache,
                   results, reports, before>>

NextMerge == MergeSimilarGroups

SpecMerge == InitMerge /\ [][NextMerge]_vars

\* The base names of two groups are similar enough to be merged.
Similar(group1, group2) ==
    LET similarity == _calculate_similarity(group1.base_name, group2.base_name)
    IN  similarity.num * 100 >= filename_similarity_threshold * similarity.den

\* C21: after the merge pass any two candidate groups whose base names are
\* similar enough (all groups have one extension) lie in one merged group:
\* some group of the result holds the files of both.
C21_SimilarGroupsAreMerged ==
    (probe.fn = "_merge_similar_groups" /\ probe.called) =>
        \A i, j \in DOMAIN probe.arg :
            Similar(probe.arg[i], probe.arg[j]) =>
                \E k \in DOMAIN probe.ret :
                    Range(probe.arg[i].files) \cup Range(probe.arg[j].files)
                        \subseteq Range(probe.ret[k].files)

----------------------------------------------------------------------------
(* VersionManager._find_content_similar_groups on its own (the fuzzy-hash   *)
(* library is there): the files of one extension in the order given, with   *)
(* contents that are similar in a chain only.                               *)

\* 0000 ~ 0001 ~ 0011 ~ 0111 (75 each); contents two or more steps apart
\* share at most half of their bytes (50, 25).
ChainContents == {<<0, 0, 0, 0>>, <<0, 0, 0, 1>>, <<0, 0, 1, 1>>, <<0, 1, 1, 1>>}

InitContent ==
    /\ \E S \in SUBSET Range(VersionPaths) :
          fs \in [S -> [content : ChainContents, mtime : Mtimes]]
    /\ dirs = {}
    /\ config = [target_directories |-> <<"D1">>, use_recycle_bin |-> FALSE]
    /\ io = AllReadable
    /\ before = [fs |-> fs, dirs |-> dirs]
    /\ scanned_files = <<>>
    /\ duplicates = <<>>
    /\ detector = "none"
    /\ version_groups = <<>>
    /\ classifications = <<>>
    /\ operations = <<>>
    /\ hash_cache = <<>>
    /\ results = NoResults
    /\ reports = <<>>
    /\ probe = [fn |-> "none"]

\* _find_content_similar_groups(files) on the files that exist
FindContentSimilarGroups ==
    /\ probe.fn = "none"
    /\ LET found == SelectSeq(VersionPaths, LAMBDA p : Exists(fs, p))
           files == [i \in 1..Len(found) |-> FileInfo(fs, found[i])]
       IN  probe' = [fn |-> "_find_content_similar_groups", arg |-> files,
                     ret |-> _find_content_similar_groups(fs, files)]
    /\ UNCHANGED <<fs, dirs, config, io, scanned_files, duplicates, detector,
                   version_groups, classifications, operations, hash_cache,
                   results, reports, before>>

NextContent == FindContentSimilarGroups

SpecContent == InitContent /\ [][NextContent]_vars

\* The positions in the input of the members of a group; the seed is the
\* first of them.
MembersOf(files, group) == {i \in DOMAIN files : files[i] \in Range(group.files)}

SeedOf(files, group) ==
    CHOOSE i \in MembersOf(files, group) : \A j \in MembersOf(files, group) : i <= j

ContentSimilar(files, i, j) ==
    _calculate_fuzzy_similarity(_calculate_fuzzy_hash(fs, files[i].path),
                                _calculate_fuzzy_hash(fs, files[j].path))
        >= content_similarity_threshold

ScoreOf(table, i) ==
    calculate_category_score(fs[TargetPaths[1]].content, table[i].keywords)

\* C23: a text file with readable content gets the category with the
\* highest score, and that score as confidence, when the score is strictly
\* above 1/10; otherwise it gets the category its file type maps to
\* (_classify_by_type).
C23_BestAboveTenthElseTypeDefault ==
    (/\ probe.fn = "classify_by_content"
     /\ probe.file_type = "text"
     /\ probe.readable
     /\ fs[TargetPaths[1]].content # <<>>) =>
        LET table == probe.table
            top == {i \in DOMAIN table :
                      \A j \in DOMAIN table : ~FracGt(ScoreOf(table, j), ScoreOf(table, i))}
            accepted == {i \in top : FracGt(ScoreOf(table, i), [num |-> 1, den |-> 10])}
        IN  IF accepted # {}
            THEN \E i \in accepted : /\ probe.ret.category = table[i].name
                                     /\ probe.ret.confidence = ScoreOf(table, i)
            ELSE probe.ret.category = _classify_by_type(probe.file_type)

----------------------------------------------------------------------------
(* FileMover._get_unique_path on its own: one folder in which any of the    *)
(* names a, a_1, a_2, ..., a_1_1 may be taken, and calls on a path, on the  *)
(* result of the last call, or on the first path again.                     *)

MaxCounter == 3

MaxCalls == 3

\* a, a_1 .. a_MaxCounter and a_1_1 in the duplicates archive
CounterPaths ==
    {Path(Dir("Duplicates", "", 0, 0), <<"a">>, sfx) :
        sfx \in {<<>>, <<1, 1>>} \cup {<<k>> : k \in 1..MaxCounter}}

InitUnique ==
    /\ \E S \in SUBSET CounterPaths : fs = [p \in S |-> [content |-> <<0>>, mtime |-> 0]]
    /\ dirs = {Dir("Duplicates", "", 0, 0)}
    /\ config = [target_directories |-> <<"Root">>, use_recycle_bin |-> FALSE]
    /\ io = AllReadable
    /\ before = [fs |-> fs, dirs |-> dirs]
    /\ scanned_files = <<>>
    /\ duplicates = <<>>
    /\ detector = "none"
    /\ version_groups = <<>>
    /\ classifications = <<>>
    /\ operations = <<>>
    /\ hash_cache = <<>>
    /\ results = NoResults
    /\ reports = <<>>
    /\ \E path \in CounterPaths :
          probe = [fn |-> "_get_unique_path", path |-> path, calls |-> <<>>]

\* _get_unique_path(path): on the first path (again), or on what the last
\* call returned
GetUniquePath(again) ==
    /\ probe.fn = "_get_unique_path"
    /\ Len(probe.calls) < MaxCalls
    /\ LET arg == IF again \/ probe.calls = <<>> THEN probe.path
                  ELSE probe.calls[Len(probe.calls)].ret
       IN  probe' = [probe EXCEPT !.calls =
                        Append(@, [arg |-> arg, ret |-> _get_unique_path(fs, arg)])]
    /\ UNCHANGED <<fs, dirs, config, io, scanned_files, duplicates, detector,
                   version_groups, classifications, operations, hash_cache,
                   results, reports, before>>

NextUnique == \E again \in BOOLEAN : GetUniquePath(again)

SpecUnique == InitUnique /\ [][NextUnique]_vars

\* stem_k + suffix
WithCounter(path, k) == Path(path.dir, path.stem, Append(path.sfx, k))

\* C24: _get_unique_path(p) is p when p does not exist, else p with the
\* smallest counter k >= 1 for which the path does not exist; the result
\* does not exist; two calls on one path give one result; a call on the
\* result of a call returns it unchanged.
C24_UniquePath ==
    probe.fn = "_get_unique_path" =>
        \A c \in DOMAIN probe.calls :
            LET arg == probe.calls[c].arg
                ret == probe.calls[c].ret
            IN  /\ ~Exists(fs, ret)
                /\ ~Exists(fs, arg) => ret = arg
                /\ Exists(fs, arg) =>
                      \E k \in 1..(Cardinality(DOMAIN fs) + 1) :
                          /\ ret = WithCounter(arg, k)
                          /\ \A j \in 1..(k - 1) : Exists(fs, WithCounter(arg, j))
                /\ \A d \in DOMAIN probe.calls :
                      /\ probe.calls[d].arg = arg => probe.calls[d].ret = ret
                      /\ probe.calls[d].arg = ret => probe.calls[d].ret = ret

\* C24 witness: the path and its first counter are taken, the call returns
\* the counter 2, and calls on that result and on the path again follow.
C24_Witness ==
    /\ probe.fn = "_get_unique_path"
    /\ Len(probe.calls) = 3
    /\ Exists(fs, probe.path)
    /\ probe.calls[1].ret = WithCounter(probe.path, 2)
    /\ probe.calls[2].arg = probe.calls[1].ret
    /\ probe.calls[3].arg = probe.path

----------------------------------------------------------------------------
(* FileMover.execute_operations in a real run with the call kept: the       *)
(* operations as they were passed, what the operating system did to each,   *)
(* and whether send2trash works.                                            *)

ExecuteForReal ==
    /\ NotExecuted
    /\ probe = NoProbe
    /\ \E faults \in [1..Len(operations) -> Faults], trash_ok \in BOOLEAN :
          LET r == execute_operations(fs, dirs, operations, FALSE, faults, trash_ok)
          IN  /\ fs' = r.fs
              /\ dirs' = r.dirs
              /\ operations' = r.operations
              /\ results' = r.results
              /\ probe' = [fn |-> "execute_operations", operations |-> operations,
                           faults |-> faults, trash_ok |-> trash_ok]
    /\ UNCHANGED <<config, io, scanned_files, duplicates, detector, version_groups,
                   classifications, hash_cache, reports, before>>

NextRecycle == ExecuteForReal

SpecRecycle == InitExec /\ [][NextRecycle]_vars

\* The source of operation i was there when its turn came: it existed
\* before the run and no earlier operation took it away.
SourceThere(i) ==
    /\ Exists(before.fs, operations[i].source)
    /\ \A j \in 1..(i - 1) :
          ~(/\ operations[j].source = operations[i].source
            /\ operations[j].status = "success"
            /\ operations[j].action # "copy")

\* The RECYCLE operations of the call whose file did not reach the trash.
FellBack ==
    {i \in DOMAIN operations :
        /\ probe.operations[i].action = "recycle"
        /\ ~(probe.trash_ok /\ SourceThere(i))}

\* C25: a RECYCLE operation whose file does not reach the trash is carried
\* out as an archive move to its planned destination: its action is ARCHIVE
\* afterwards, the one move succeeds exactly when the source is there and
\* the operating system lets it (then the file lies at the destination and
\* no longer at the source), and the operation is counted once, as success
\* or as failed.
C25_RecycleFallsBackToArchive ==
    probe.fn = "execute_operations" =>
        /\ \A i \in FellBack :
              /\ operations[i].action = "archive"
              /\ operations[i].destination = probe.operations[i].destination
              /\ operations[i].status \in {"success", "failed"}
              /\ operations[i].status = "success"
                    <=> (SourceThere(i) /\ probe.faults[i] = "none")
              /\ operations[i].status = "success"
                    => /\ ~Exists(fs, operations[i].source)
                       /\ Exists(fs, operations[i].destination)
                       /\ fs[operations[i].destination] = before.fs[operations[i].source]
        /\ results.success = Cardinality(Succeeded(operations))
        /\ results.failed = Cardinality(Failed(operations))
        /\ results.success + results.failed = results.total

\* C25 witness: send2trash does not work, one RECYCLE operation was moved to
\* the archive and another failed there.
C25_Witness ==
    /\ probe.fn = "execute_operations"
    /\ ~probe.trash_ok
    /\ \E i, j \in FellBack : /\ operations[i].status = "success"
                              /\ operations[j].status = "failed"

----------------------------------------------------------------------------
(* The kept file of a duplicate group, under Spec (target directories that  *)
(* overlap included)                                                        *)

\* The plan holds the operations of plan_duplicate_cleanup only.
DuplicatePlan ==
    /\ operations # <<>>
    /\ \A i \in DOMAIN operations : operations[i].reason.why = "duplicate"

\* C26: for every duplicate group some member (the kept file) is the source
\* of no planned operation of the duplicate clean-up, and after a real
\* execution in which every operation succeeded some member of every group
\* is still at its original location; also with target directories of which
\* one lies in another.
C26_KeptFileStays ==
    DuplicatePlan =>
        \A g \in DOMAIN duplicates :
            /\ \E i \in DOMAIN duplicates[g].files :
                  \A j \in DOMAIN operations :
                      operations[j].source # duplicates[g].files[i].path
            /\ (RealRunDone /\ Succeeded(operations) = DOMAIN operations)
                  => \E i \in DOMAIN duplicates[g].files :
                        Exists(fs, duplicates[g].files[i].path)

----------------------------------------------------------------------------
(* plan_version_cleanup, called by FileOrganizer.plan_cleanup on the groups *)
(* that were found and called directly with lists of paths                  *)

\* The paths of VersionPaths that are in S, in the order of VersionPaths
PathList(S) == SelectSeq(VersionPaths, LAMBDA p : p \in S)

\* plan_cleanup(duplicates=False, versions=True, organize=False): the file to
\* keep and the files to archive of every group, collected into two lists
PlanVersionsOfGroups ==
    /\ probe.fn = "find_version_groups"
    /\ version_groups # <<>>
    /\ LET analyses == [i \in 1..Len(version_groups) |->
                           analyze_version_group(version_groups[i])]
           keep_paths == [i \in 1..Len(version_groups) |->
                             analyses[i].recommended_keep]
           archive_paths == Flatten([i \in 1..Len(version_groups) |->
                                        analyses[i].recommended_archive])
       IN  /\ operations' = plan_version_cleanup(fs, config, keep_paths, archive_paths)
           /\ probe' = [fn |-> "plan_version_cleanup", keep_paths |-> keep_paths,
                        archive_paths |-> archive_paths]
    /\ UNCHANGED <<fs, dirs, config, io, scanned_files, duplicates, detector,
                   version_groups, classifications, hash_cache, results,
                   reports, before>>

\* plan_version_cleanup(keep_paths, archive_paths) on lists of the caller
PlanVersionCleanup(keep_paths, archive_paths) ==
    /\ probe.fn = "none"
    /\ operations' = plan_version_cleanup(fs, config, keep_paths, archive_paths)
    /\ probe' = [fn |-> "plan_version_cleanup", keep_paths |-> keep_paths,
                 archive_paths |-> archive_paths]
    /\ UNCHANGED <<fs, dirs, config, io, scanned_files, duplicates, detector,
                   version_groups, classifications, hash_cache, results,
                   reports, before>>

NextVersionPlan ==
    \/ FindVersionGroupsOfFiles
    \/ PlanVersionsOfGroups
    \/ \E K, A \in SUBSET Range(VersionPaths) :
          PlanVersionCleanup(PathList(K), PathList(A))

SpecVersionPlan == InitVersions /\ [][NextVersionPlan]_vars

\* C27: no operation that plan_version_cleanup returns has one of the paths
\* of keep_paths as its source, whatever the two lists are, so a file that
\* was chosen to be kept is not archived by the version clean-up.
C27_KeptVersionNotArchived ==
    probe.fn = "plan_version_cleanup" =>
        \A j \in DOMAIN operations :
            \A k \in DOMAIN probe.keep_paths :
                operations[j].source # probe.keep_paths[k]

----------------------------------------------------------------------------
(* The groups of find_version_groups as a partition, under SpecVersions *)

\* The places (group, position) at which a path occurs in the groups found
PlacesOf(path) ==
    {<<g, i>> \in (DOMAIN version_groups) \X (1..Len(VersionStems)) :
        /\ i \in DOMAIN version_groups[g].files
        /\ version_groups[g].files[i].path = path}

\* C28: in the groups that find_version_groups returns every input file is
\* in at most one group and at most once in that group, without the fuzzy
\* content matching and with it.
C28_FileInAtMostOneGroup ==
    probe.fn = "find_version_groups" =>
        \A i \in DOMAIN scanned_files :
            Cardinality(PlacesOf(scanned_files[i].path)) <= 1

----------------------------------------------------------------------------
(* The two detectors on one filesystem state, under SpecDetect *)

\* How often each path occurs among the members of a group
PathCounts(files) ==
    [p \in {files[i].path : i \in DOMAIN files} |->
        Cardinality({i \in DOMAIN files : files[i].path = p})]

\* The reported groups as a set: the hash and the members of each
DetectedGroups(groups) ==
    {[hash |-> groups[g].hash, members |-> PathCounts(groups[g].files)] :
        g \in DOMAIN groups}

\* C29: with every file readable find_duplicates_parallel reports, for every
\* order in which the workers complete, the set of groups with the members
\* that find_duplicates reports on the same filesystem state; the groups of
\* the run just made are that set as well.
C29_ParallelAgreesWithSequential ==
    (io = AllReadable /\ detector # "none") =>
        LET directories == config.target_directories
            sequential == DetectedGroups(
                              find_duplicates(fs, io, <<>>, directories).groups)
        IN  /\ DetectedGroups(duplicates) = sequential
            /\ \A order \in Permutations(1..Len(SizeCandidates(ScanAll(fs, directories)))) :
                  DetectedGroups(find_duplicates_parallel(
                      fs, io, <<>>, directories, order).groups) = sequential

\* C29 witness: the parallel detector ran with every file readable and
\* reported a group whose members are not in the order of the scan, while a
\* file of the size and samples of the members, which only the full
\* fingerprint tells apart, is in no group.
C29_Witness ==
    /\ io = AllReadable
    /\ detector = "parallel"
    /\ \E g \in DOMAIN duplicates :
          /\ duplicates[g].files #
                find_duplicates(fs, io, <<>>, config.target_directories).groups[g].files
          /\ \E path \in ScannedPaths :
                /\ ~Grouped(path)
                /\ Size(fs[path].content) = duplicates[g].files[1].size
                /\ PartialSamples(fs[path].content)
                      = PartialSamples(fs[duplicates[g].files[1].path].content)

----------------------------------------------------------------------------
(* Detection followed by plan_duplicate_cleanup, run twice on one           *)
(* filesystem state, under SpecDetect                                       *)

\* The file plan_duplicate_cleanup keeps of every group
KeptFiles(groups, keep_strategy) ==
    {[hash |-> groups[g].hash,
      keep_file |-> SortForKeep(groups[g].files, keep_strategy)[1].path] :
        g \in DOMAIN groups}

\* The (source, destination) pairs of the operations planned for the groups
PlannedMoves(groups, keep_strategy) ==
    LET ops == plan_duplicate_cleanup(fs, config, groups, keep_strategy)
    IN  {<<ops[i].source, ops[i].destination>> : i \in DOMAIN ops}

SamePlan(groups, again, keep_strategy) ==
    /\ KeptFiles(groups, keep_strategy) = KeptFiles(again, keep_strategy)
    /\ PlannedMoves(groups, keep_strategy) = PlannedMoves(again, keep_strategy)

\* C30: a second run of the detector that just ran, on the same filesystem
\* state and followed by plan_duplicate_cleanup with the same keep strategy,
\* keeps the same file of every group and plans the same set of (source,
\* destination) operations as the first, whatever the order in which the
\* workers of the parallel detector complete and also when members tie on
\* the key of the strategy.
C30_PlanIsDeterministic ==
    \A keep_strategy \in KeepStrategies :
        LET directories == config.target_directories
        IN  /\ detector = "sequential" =>
                  SamePlan(duplicates,
                           find_duplicates(fs, io, hash_cache, directories).groups,
                           keep_strategy)
            /\ detector = "parallel" =>
                  \A order \in Permutations(
                          1..Len(SizeCandidates(ScanAll(fs, directories)))) :
                      SamePlan(duplicates,
                               find_duplicates_parallel(fs, io, hash_cache,
                                                        directories, order).groups,
                               keep_strategy)

============================================================================
